---- MODULE Spec2Model ----
(***************************************************************************)
(* Rootless slirp4netns network setup (libpod), as found in                *)
(* src/pkg/domain/infra/tunnel/play.go lines 36-582:                       *)
(*   - parseSlirp4netnsNetworkOptions, checkSlirpFlags and                 *)
(*     createBasicSlirp4netnsCmdArgs (option parsing, feature probing,     *)
(*     command construction),                                              *)
(*   - setupSlirp4netns (pipes, log file, helper start, forwarder call),   *)
(*   - waitForSync (readiness handshake over the sync pipe),               *)
(*   - setupRootlessPortMappingViaSlirp (add_hostfwd over the API socket), *)
(*   - setupRootlessPortMappingViaRLK (rootlessport child, child IP).      *)
(* Strings are sequences of one-character strings, so that SplitN, Atoi,   *)
(* ParseIP and ParseCIDR are computed on the text the way Go computes them.*)
(***************************************************************************)
EXTENDS Integers, Sequences, FiniteSets, TLC

\* ------------------------------------------------------------------ bounds
\* Longest option list (engine-wide entries plus the container's entries).
MaxOpts == 2
\* Most bytes the child writes to its log.
MaxLog == 2
\* Most bytes the child writes to the sync pipe.
MaxPipe == 2
\* Deadline expiries counted by the model (the count stays there; the loop
\* of waitForSync goes on).
MaxExpiries == 3
\* Most port mappings of a container.
MaxMappings == 3
\* Turns of the liveness loop of setupRootlessPortMappingViaSlirp, standing
\* for pidWaitTimeout / interval = 2400.
MaxPolls == 2
\* Most networks in a container's status, and most addresses of a network.
MaxNets == 2
MaxIPs == 2

\* ----------------------------------------------------------------- strings
S_cidr == <<"c","i","d","r">>
S_port_handler == <<"p","o","r","t","_","h","a","n","d","l","e","r">>
S_allow_host_loopback == <<"a","l","l","o","w","_","h","o","s","t","_","l","o","o","p","b","a","c","k">>
S_enable_ipv6 == <<"e","n","a","b","l","e","_","i","p","v","6">>
S_outbound_addr == <<"o","u","t","b","o","u","n","d","_","a","d","d","r">>
S_outbound_addr6 == <<"o","u","t","b","o","u","n","d","_","a","d","d","r","6">>
S_mtu == <<"m","t","u">>
S_slirp4netns == <<"s","l","i","r","p","4","n","e","t","n","s">>
S_rootlesskit == <<"r","o","o","t","l","e","s","s","k","i","t">>
S_true == <<"t","r","u","e">>
S_false == <<"f","a","l","s","e">>

\* The empty string, and Go's nil slice (a nil net.IP).
Empty == <<>>
Nil == <<>>

\* s[from:] of Go, with from counted from 0.
Drop(s, from) == SubSeq(s, from + 1, Len(s))

\* strings.Index(s, c) for a one-character c: the 0-based index of the first
\* occurrence, or -1.
RECURSIVE IndexFrom(_, _, _)
IndexFrom(s, c, i) ==
    IF i > Len(s) THEN -1
    ELSE IF s[i] = c THEN i - 1
    ELSE IndexFrom(s, c, i + 1)

Index(s, c) == IndexFrom(s, c, 1)

\* strings.SplitN(o, "=", 2): one part when there is no "=", otherwise the
\* text before the first "=" and everything after it.
splitAt(o, i) ==
    IF i < 0 THEN <<o>>
    ELSE <<SubSeq(o, 1, i), Drop(o, i + 1)>>

SplitN2(o) == splitAt(o, Index(o, "="))

DecDigits == {"0","1","2","3","4","5","6","7","8","9"}

DigitVal(c) ==
    CASE c = "0" -> 0 [] c = "1" -> 1 [] c = "2" -> 2 [] c = "3" -> 3
      [] c = "4" -> 4 [] c = "5" -> 5 [] c = "6" -> 6 [] c = "7" -> 7
      [] c = "8" -> 8 [] c = "9" -> 9
      [] c \in {"a","A"} -> 10 [] c \in {"b","B"} -> 11 [] c \in {"c","C"} -> 12
      [] c \in {"d","D"} -> 13 [] c \in {"e","E"} -> 14 [] c \in {"f","F"} -> 15
      [] OTHER -> -1

HexDigits == DecDigits \cup {"a","b","c","d","e","f","A","B","C","D","E","F"}

\* The loop of net.dtoi and net.xtoi from the 0-based index i with the value
\* n read so far: each digit is added, and the loop returns from inside, at
\* the index of that digit, once the value reaches big (0xFFFFFF), where dtoi
\* reports big and xtoi reports 0; with no digit at all ok is false.
RECURSIVE numLoop(_, _, _, _, _, _)
numLoop(s, i, n, base, D, atBig) ==
    IF i < Len(s) /\ s[i + 1] \in D
    THEN IF n * base + DigitVal(s[i + 1]) >= 16777215
         THEN [n |-> atBig, i |-> i, ok |-> FALSE]
         ELSE numLoop(s, i + 1, n * base + DigitVal(s[i + 1]), base, D, atBig)
    ELSE IF i = 0 THEN [n |-> 0, i |-> 0, ok |-> FALSE]
    ELSE [n |-> n, i |-> i, ok |-> TRUE]

\* net.dtoi: the decimal prefix of s.
dtoi(s) == numLoop(s, 0, 0, 10, DecDigits, 16777215)

\* net.xtoi: the hexadecimal prefix of s.
xtoi(s) == numLoop(s, 0, 0, 16, HexDigits, 0)

\* A Go int (64 bits), kept at its full width as a sign and a magnitude: neg
\* is true below zero, mag lists the decimal digits of the magnitude as
\* numbers, the most significant first and without leading zeros (<<0>> for
\* zero).
RECURSIVE natDigits(_)
natDigits(n) == IF n < 10 THEN <<n>> ELSE natDigits(n \div 10) \o <<n % 10>>

\* The int with the value of the small number n.
IntOf(n) ==
    IF n < 0 THEN [neg |-> TRUE, mag |-> natDigits(0 - n)]
    ELSE [neg |-> FALSE, mag |-> natDigits(n)]

\* a < b for magnitudes.
magLess(a, b) ==
    \/ Len(a) < Len(b)
    \/ /\ Len(a) = Len(b)
       /\ \E i \in 1..Len(a) : /\ a[i] < b[i]
                               /\ \A j \in 1..(i - 1) : a[j] = b[j]

\* x < y for ints.
intLess(x, y) ==
    IF x.neg # y.neg THEN x.neg
    ELSE IF x.neg THEN magLess(y.mag, x.mag)
    ELSE magLess(x.mag, y.mag)

\* 1<<64 - 1, 1<<63 - 1 and 1<<63 (the cutoff of strconv.ParseInt).
MaxUint64 == <<1,8,4,4,6,7,4,4,0,7,3,7,0,9,5,5,1,6,1,5>>
MaxInt64 == <<9,2,2,3,3,7,2,0,3,6,8,5,4,7,7,5,8,0,7>>
Cutoff64 == <<9,2,2,3,3,7,2,0,3,6,8,5,4,7,7,5,8,0,8>>

\* The loop of strconv.ParseUint(s, 10, 64) from the 1-based position i with
\* the value n read so far: a character that is no digit ends it with a
\* syntax error and the value 0, a digit that takes n*10 + d above 1<<64 - 1
\* ends it with a range error and the value 1<<64 - 1, whichever comes first.
RECURSIVE parseUintLoop(_, _, _)
parseUintLoop(s, i, n) ==
    IF i > Len(s) THEN [n |-> n, err |-> "nil"]
    ELSE IF s[i] \notin DecDigits THEN [n |-> <<0>>, err |-> "syntax"]
    ELSE LET n1 == IF n = <<0>> THEN <<DigitVal(s[i])>>
                   ELSE Append(n, DigitVal(s[i]))
         IN  IF magLess(MaxUint64, n1) THEN [n |-> MaxUint64, err |-> "range"]
             ELSE parseUintLoop(s, i + 1, n1)

\* strconv.ParseUint(s, 10, 64): the empty text is a syntax error.
ParseUint(s) ==
    IF s = <<>> THEN [n |-> <<0>>, err |-> "syntax"] ELSE parseUintLoop(s, 1, <<0>>)

\* strconv.ParseInt on the sign and the text after it, as strconv.Atoi
\* returns it: 0 with a syntax error; the bound with a range error, 1<<63 - 1
\* when the magnitude reaches the cutoff and -(1<<63) when a negative one
\* passes it; otherwise the signed value.
atoiBody(negative, body) ==
    LET u == ParseUint(body)
    IN  IF u.err = "syntax" THEN [n |-> IntOf(0), err |-> TRUE]
        ELSE IF ~negative /\ ~magLess(u.n, Cutoff64)
        THEN [n |-> [neg |-> FALSE, mag |-> MaxInt64], err |-> TRUE]
        ELSE IF negative /\ magLess(Cutoff64, u.n)
        THEN [n |-> [neg |-> TRUE, mag |-> Cutoff64], err |-> TRUE]
        ELSE [n |-> [neg |-> negative /\ u.n # <<0>>, mag |-> u.n], err |-> FALSE]

\* strconv.Atoi: optional sign, then decimal digits only.
Atoi(s) ==
    IF s # <<>> /\ s[1] \in {"+", "-"} THEN atoiBody(s[1] = "-", Tail(s))
    ELSE atoiBody(FALSE, s)

\* fmt.Sprintf("%d", n) for a small number n.
RECURSIVE FormatNat(_)
FormatNat(n) ==
    LET d == <<"0","1","2","3","4","5","6","7","8","9">>[(n % 10) + 1]
    IN  IF n < 10 THEN <<d>> ELSE FormatNat(n \div 10) \o <<d>>

\* fmt.Sprintf("%d", x) for an int x.
FormatInt(x) ==
    (IF x.neg THEN <<"-">> ELSE <<>>)
        \o [i \in 1..Len(x.mag) |->
              <<"0","1","2","3","4","5","6","7","8","9">>[x.mag[i] + 1]]

\* --------------------------------------------------------------- package net
Zeros(n) == [k \in 1..n |-> 0]

v4InV6Prefix == <<0, 0, 0, 0, 0, 0, 0, 0, 0, 0, 255, 255>>

\* net.parseIPv4: four decimal fields 0..255 separated by dots, no leading
\* zeros; the result is the 16-byte IPv4-in-IPv6 form, or nil.  p holds the
\* fields read so far, t the text at the next field and d its dtoi.
RECURSIVE parseIPv4Fields(_, _)
v4Field(t, p, d) ==
    IF ~d.ok \/ d.n > 255 THEN Nil
    ELSE IF d.i > 1 /\ t[1] = "0" THEN Nil
    ELSE parseIPv4Fields(Drop(t, d.i), Append(p, d.n))

v4FieldAt(t, p) == v4Field(t, p, dtoi(t))

parseIPv4Fields(s, p) ==
    IF Len(p) = 4 THEN (IF s # <<>> THEN Nil ELSE v4InV6Prefix \o p)
    ELSE IF s = <<>> THEN Nil
    ELSE IF Len(p) > 0 /\ s[1] # "." THEN Nil
    ELSE v4FieldAt(IF Len(p) > 0 THEN Tail(s) ELSE s, p)

parseIPv4(s) == parseIPv4Fields(s, <<>>)

\* The end of net.parseIPv6: all input consumed, and the "::" expanded.
v6Finish(s, ip, ellipsis) ==
    IF s # <<>> THEN Nil
    ELSE IF Len(ip) < 16
         THEN IF ellipsis < 0 THEN Nil
              ELSE SubSeq(ip, 1, ellipsis) \o Zeros(16 - Len(ip))
                       \o SubSeq(ip, ellipsis + 1, Len(ip))
         ELSE IF ellipsis >= 0 THEN Nil ELSE ip

\* The loop of net.parseIPv6; Len(ip) is its byte index i, x the xtoi of
\* the text at the next group.
RECURSIVE v6Loop(_, _, _)
\* After the ':' that follows a group: a second ':' is the ellipsis.
v6AfterColon(s, ip, ellipsis) ==
    IF s[1] = ":"
    THEN IF ellipsis >= 0 THEN Nil
         ELSE IF Tail(s) = <<>> THEN v6Finish(<<>>, ip, Len(ip))
         ELSE v6Loop(Tail(s), ip, Len(ip))
    ELSE v6Loop(s, ip, ellipsis)

\* After a group: the end of the text, or a ':' with more text behind it.
v6AfterGroup(s, ip, ellipsis) ==
    IF s = <<>> THEN v6Finish(s, ip, ellipsis)
    ELSE IF s[1] # ":" \/ Len(s) = 1 THEN Nil
    ELSE v6AfterColon(Tail(s), ip, ellipsis)

\* A trailing dotted IPv4 address.
v6Trailing4(ip, ellipsis, ip4) ==
    IF ip4 = Nil THEN Nil
    ELSE v6Finish(<<>>, ip \o SubSeq(ip4, 13, 16), ellipsis)

v6Group(s, ip, ellipsis, x) ==
    IF ~x.ok \/ x.n > 65535 THEN Nil
    ELSE IF x.i < Len(s) /\ s[x.i + 1] = "."
    THEN IF ellipsis < 0 /\ Len(ip) # 12 THEN Nil
         ELSE IF Len(ip) + 4 > 16 THEN Nil
         ELSE v6Trailing4(ip, ellipsis, parseIPv4(s))
    ELSE v6AfterGroup(Drop(s, x.i), ip \o <<x.n \div 256, x.n % 256>>, ellipsis)

v6Loop(s, ip, ellipsis) ==
    IF Len(ip) >= 16 THEN v6Finish(s, ip, ellipsis)
    ELSE v6Group(s, ip, ellipsis, xtoi(s))

parseIPv6(s) ==
    IF Len(s) >= 2 /\ s[1] = ":" /\ s[2] = ":"
    THEN IF Drop(s, 2) = <<>> THEN Zeros(16) ELSE v6Loop(Drop(s, 2), <<>>, 0)
    ELSE v6Loop(s, <<>>, -1)

\* net.ParseIP: the first '.' or ':' decides the family.
RECURSIVE ParseIPFrom(_, _)
ParseIPFrom(s, i) ==
    IF i > Len(s) THEN Nil
    ELSE IF s[i] = "." THEN parseIPv4(s)
    ELSE IF s[i] = ":" THEN parseIPv6(s)
    ELSE ParseIPFrom(s, i + 1)

ParseIP(s) == ParseIPFrom(s, 1)

\* net.IP.To4: the four address bytes of a 4-byte or IPv4-in-IPv6 address,
\* else nil.
To4(ip) ==
    IF Len(ip) = 4 THEN ip
    ELSE IF Len(ip) = 16 /\ SubSeq(ip, 1, 12) = v4InV6Prefix THEN SubSeq(ip, 13, 16)
    ELSE Nil

\* The k-th byte (1-based) of net.CIDRMask(ones, 8 * n).
MaskByte(ones, k) ==
    LET left == ones - 8 * (k - 1)
    IN  IF left >= 8 THEN 255
        ELSE IF left <= 0 THEN 0
        ELSE 256 - 2 ^ (8 - left)

\* Bitwise AND of two bytes, the second a mask byte of leading ones.
AndMask(b, m) == b - (b % (256 - m))

\* net.ParseCIDR: [err, ip, net]; ip is the address as written, net the
\* address with the host bits cleared (IPNet.IP, 4 bytes for an IPv4 text).
cidrBad == [err |-> TRUE, ip |-> Nil, net |-> Nil]

cidrNet(raw, iplen, ones) == [k \in 1..iplen |-> AndMask(raw[k], MaskByte(ones, k))]

cidrMasked(ip, iplen, d, mask) ==
    IF ip = Nil \/ ~d.ok \/ d.i # Len(mask) \/ d.n < 0 \/ d.n > 8 * iplen THEN cidrBad
    ELSE [err |-> FALSE, ip |-> ip,
          net |-> cidrNet(IF iplen = 4 THEN To4(ip) ELSE ip, iplen, d.n)]

cidrAddr(addr, mask, ip4) ==
    IF ip4 # Nil THEN cidrMasked(ip4, 4, dtoi(mask), mask)
    ELSE cidrMasked(parseIPv6(addr), 16, dtoi(mask), mask)

cidrAt(s, i) ==
    IF i < 0 THEN cidrBad
    ELSE cidrAddr(SubSeq(s, 1, i), Drop(s, i + 1), parseIPv4(SubSeq(s, 1, i)))

ParseCIDR(s) == cidrAt(s, Index(s, "/"))

\* ------------------------------------------------------------ the host
\* Names of the host's network interfaces, as net.InterfaceByName finds them.
Interfaces == { <<"e","t","h","0">> }

InterfaceByNameFails(name) == name \notin Interfaces

\* slirp4netnsMTU, the preset MTU of the helper.
slirp4netnsMTU == 65520

\* ------------------------------------------------------- OptionParser
NoErr == [msg |-> "", arg |-> Empty]

Errorf(msg, arg) == [msg |-> msg, arg |-> arg]

\* The options the parser starts from (lines 113-118).
defaultOptions(noPivotRoot) ==
    [ cidr |-> Empty,
      disableHostLoopback |-> TRUE,
      enableIPv6 |-> FALSE,
      isSlirpHostForward |-> FALSE,
      noPivotRoot |-> noPivotRoot,
      mtu |-> IntOf(slirp4netnsMTU),
      outboundAddr |-> Empty,
      outboundAddr6 |-> Empty ]

\* A nil *slirp4netnsNetworkOptions.
nilOptions == [nil |-> TRUE, v |-> defaultOptions(FALSE)]

ptr(o) == [nil |-> FALSE, v |-> o]

\* case "cidr" (lines 126-131).
cidrChecked(o, value, c) ==
    IF c.err \/ To4(c.ip) = Nil
    THEN [err |-> Errorf("invalid cidr", value), o |-> o]
    ELSE [err |-> NoErr, o |-> [o EXCEPT !.cidr = value]]

parseCidr(o, value) == cidrChecked(o, value, ParseCIDR(value))

\* case "port_handler" (lines 132-140).
parsePortHandler(o, value) ==
    IF value = S_slirp4netns THEN [err |-> NoErr, o |-> [o EXCEPT !.isSlirpHostForward = TRUE]]
    ELSE IF value = S_rootlesskit THEN [err |-> NoErr, o |-> [o EXCEPT !.isSlirpHostForward = FALSE]]
    ELSE [err |-> Errorf("unknown port_handler for slirp4netns", value), o |-> o]

\* case "allow_host_loopback" (lines 141-149).
parseAllowHostLoopback(o, value) ==
    IF value = S_true THEN [err |-> NoErr, o |-> [o EXCEPT !.disableHostLoopback = FALSE]]
    ELSE IF value = S_false THEN [err |-> NoErr, o |-> [o EXCEPT !.disableHostLoopback = TRUE]]
    ELSE [err |-> Errorf("invalid value of allow_host_loopback for slirp4netns", value), o |-> o]

\* case "enable_ipv6" (lines 150-158).
parseEnableIPv6(o, value) ==
    IF value = S_true THEN [err |-> NoErr, o |-> [o EXCEPT !.enableIPv6 = TRUE]]
    ELSE IF value = S_false THEN [err |-> NoErr, o |-> [o EXCEPT !.enableIPv6 = FALSE]]
    ELSE [err |-> Errorf("invalid value of enable_ipv6 for slirp4netns", value), o |-> o]

\* case "outbound_addr" (lines 159-167).
outboundAddrChecked(o, value, ipv4) ==
    IF (ipv4 = Nil \/ To4(ipv4) = Nil) /\ InterfaceByNameFails(value)
    THEN [err |-> Errorf("invalid outbound_addr", value), o |-> o]
    ELSE [err |-> NoErr, o |-> [o EXCEPT !.outboundAddr = value]]

parseOutboundAddr(o, value) == outboundAddrChecked(o, value, ParseIP(value))

\* case "outbound_addr6" (lines 168-176).
outboundAddr6Checked(o, value, ipv6) ==
    IF (ipv6 = Nil \/ To4(ipv6) # Nil) /\ InterfaceByNameFails(value)
    THEN [err |-> Errorf("invalid outbound_addr6", value), o |-> o]
    ELSE [err |-> NoErr, o |-> [o EXCEPT !.outboundAddr6 = value]]

parseOutboundAddr6(o, value) == outboundAddr6Checked(o, value, ParseIP(value))

\* case "mtu" (lines 177-182).
mtuChecked(o, value, a) ==
    IF intLess(a.n, IntOf(68)) \/ a.err
    THEN [err |-> Errorf("invalid mtu", value), o |-> [o EXCEPT !.mtu = a.n]]
    ELSE [err |-> NoErr, o |-> [o EXCEPT !.mtu = a.n]]

parseMtu(o, value) == mtuChecked(o, value, Atoi(value))

\* One turn of the loop over the entries (lines 120-185).
\* The switch of lines 125-185 on the text before the first "=".
optionSwitch(o, entry, option, value) ==
    IF option = S_cidr THEN parseCidr(o, value)
    ELSE IF option = S_port_handler THEN parsePortHandler(o, value)
    ELSE IF option = S_allow_host_loopback THEN parseAllowHostLoopback(o, value)
    ELSE IF option = S_enable_ipv6 THEN parseEnableIPv6(o, value)
    ELSE IF option = S_outbound_addr THEN parseOutboundAddr(o, value)
    ELSE IF option = S_outbound_addr6 THEN parseOutboundAddr6(o, value)
    ELSE IF option = S_mtu THEN parseMtu(o, value)
    ELSE [err |-> Errorf("unknown option for slirp4netns", entry), o |-> o]

optionParts(o, entry, parts) ==
    IF Len(parts) < 2 THEN [err |-> Errorf("unknown option for slirp4netns", entry), o |-> o]
    ELSE optionSwitch(o, entry, parts[1], parts[2])

applyOption(o, entry) == optionParts(o, entry, SplitN2(entry))

\* The loop of lines 119-186 from entry i on: the first error ends it with
\* a nil result.
RECURSIVE parseLoop(_, _, _)
\* A loop that skips an entry it cannot use and goes on.
parseStepSkipping(r, slirpOptions, i) == parseLoop(r.o, slirpOptions, i + 1)

parseStep(r, slirpOptions, i) ==
    IF r.err # NoErr THEN [opts |-> nilOptions, err |-> r.err]
    ELSE parseLoop(r.o, slirpOptions, i + 1)

parseLoop(o, slirpOptions, i) ==
    IF i > Len(slirpOptions) THEN [opts |-> ptr(o), err |-> NoErr]
    ELSE parseStep(applyOption(o, slirpOptions[i]), slirpOptions, i)

\* A parser that puts the engine-wide entries after the container's.
parseOptionsEngineLast(engineOptions, noPivotRoot, extraOptions) ==
    parseLoop(defaultOptions(noPivotRoot), extraOptions \o engineOptions, 1)

\* parseSlirp4netnsNetworkOptions(r, extraOptions): engineOptions is
\* r.config.Engine.NetworkCmdOptions, noPivotRoot is r.config.Engine.NoPivotRoot.
parseSlirp4netnsNetworkOptions(engineOptions, noPivotRoot, extraOptions) ==
    parseLoop(defaultOptions(noPivotRoot), engineOptions \o extraOptions, 1)

\* -------------------------------------------------------- FeatureProbe
HelpWords == { "--disable-host-loopback", "--mtu", "--enable-sandbox",
               "--enable-seccomp", "--cidr", "--outbound-addr",
               "--outbound-addr6", "--enable-ipv6" }

\* strings.Contains(out, flag), the help output being the set of option
\* words it prints: "--outbound-addr" is also found inside "--outbound-addr6".
Contains(out, flag) ==
    \/ flag \in out
    \/ flag = "--outbound-addr" /\ "--outbound-addr6" \in out

\* checkSlirpFlags on the combined output of `path --help` (lines 100-108).
checkSlirpFlags(out) ==
    [ HasDisableHostLoopback |-> Contains(out, "--disable-host-loopback"),
      HasMTU |-> Contains(out, "--mtu"),
      HasEnableSandbox |-> Contains(out, "--enable-sandbox"),
      HasEnableSeccomp |-> Contains(out, "--enable-seccomp"),
      HasCIDR |-> Contains(out, "--cidr"),
      HasOutboundAddr |-> Contains(out, "--outbound-addr"),
      HasIPv6 |-> Contains(out, "--enable-ipv6") ]

noFeatures == checkSlirpFlags({})

\* ------------------------------------------------------ CommandBuilder
Arg(flag, val) == [flag |-> flag, val |-> val]

\* Lines 192-194.
loopbackArgs(options, features) ==
    IF options.disableHostLoopback /\ features.HasDisableHostLoopback
    THEN <<Arg("--disable-host-loopback", Empty)>> ELSE <<>>

\* An --mtu flag emitted without asking the helper's features.
mtuArgsUnprobed(options, features) ==
    IF intLess(IntOf(-1), options.mtu)
    THEN <<Arg("--mtu=", FormatInt(options.mtu))>> ELSE <<>>

\* Lines 195-197.
mtuArgs(options, features) ==
    IF intLess(IntOf(-1), options.mtu) /\ features.HasMTU
    THEN <<Arg("--mtu=", FormatInt(options.mtu))>> ELSE <<>>

\* Lines 198-200.
sandboxArgs(options, features) ==
    IF ~options.noPivotRoot /\ features.HasEnableSandbox
    THEN <<Arg("--enable-sandbox", Empty)>> ELSE <<>>

\* Lines 201-203.
seccompArgs(options, features) ==
    IF features.HasEnableSeccomp THEN <<Arg("--enable-seccomp", Empty)>> ELSE <<>>

\* A cidr step that leaves the flag out when the helper lacks it.
cidrArgsDropped(options, features) ==
    IF options.cidr # Empty /\ features.HasCIDR
    THEN [err |-> NoErr, args |-> <<Arg("--cidr=", options.cidr)>>]
    ELSE [err |-> NoErr, args |-> <<>>]

\* Lines 205-210.
cidrArgs(options, features) ==
    IF options.cidr # Empty
    THEN IF ~features.HasCIDR
         THEN [err |-> Errorf("cidr not supported", Empty), args |-> <<>>]
         ELSE [err |-> NoErr, args |-> <<Arg("--cidr=", options.cidr)>>]
    ELSE [err |-> NoErr, args |-> <<>>]

\* Lines 212-217.
ipv6Args(options, features) ==
    IF options.enableIPv6
    THEN IF ~features.HasIPv6
         THEN [err |-> Errorf("enable_ipv6 not supported", Empty), args |-> <<>>]
         ELSE [err |-> NoErr, args |-> <<Arg("--enable-ipv6", Empty)>>]
    ELSE [err |-> NoErr, args |-> <<>>]

\* Lines 219-224.
outboundAddrArgs(options, features) ==
    IF options.outboundAddr # Empty
    THEN IF ~features.HasOutboundAddr
         THEN [err |-> Errorf("outbound_addr not supported", Empty), args |-> <<>>]
         ELSE [err |-> NoErr, args |-> <<Arg("--outbound-addr=", options.outboundAddr)>>]
    ELSE [err |-> NoErr, args |-> <<>>]

\* A builder that never asks whether IPv6 was enabled.
lacksIPv6Unchecked(options) == FALSE

\* The condition of line 230.
lacksIPv6(options) == ~options.enableIPv6

\* Lines 226-234.
outboundAddr6Args(options, features) ==
    IF options.outboundAddr6 # Empty
    THEN IF ~features.HasOutboundAddr \/ ~features.HasIPv6
         THEN [err |-> Errorf("outbound_addr6 not supported", Empty), args |-> <<>>]
         ELSE IF lacksIPv6(options)
         THEN [err |-> Errorf("enable_ipv6=true is required for outbound_addr6", Empty),
               args |-> <<>>]
         ELSE [err |-> NoErr, args |-> <<Arg("--outbound-addr6=", options.outboundAddr6)>>]
    ELSE [err |-> NoErr, args |-> <<>>]

\* The checked steps of lines 205-234 one after another from step i on: the
\* first error ends the build with a nil vector.
RECURSIVE buildFrom(_, _, _)
buildFrom(cmdArgs0, steps, i) ==
    IF i > Len(steps) THEN [args |-> cmdArgs0, err |-> NoErr]
    ELSE IF steps[i].err # NoErr THEN [args |-> Nil, err |-> steps[i].err]
    ELSE buildFrom(cmdArgs0 \o steps[i].args, steps, i + 1)

\* createBasicSlirp4netnsCmdArgs(options, features) (lines 190-237).
\* A builder that puts the MTU before the loopback flag.
createArgsMtuFirst(options, features) ==
    buildFrom(mtuArgs(options, features) \o loopbackArgs(options, features)
                  \o sandboxArgs(options, features) \o seccompArgs(options, features),
              << cidrArgs(options, features), ipv6Args(options, features),
                 outboundAddrArgs(options, features),
                 outboundAddr6Args(options, features) >>,
              1)

\* Lines 190-237.
createBasicSlirp4netnsCmdArgs(options, features) ==
    buildFrom(loopbackArgs(options, features) \o mtuArgs(options, features)
                  \o sandboxArgs(options, features) \o seccompArgs(options, features),
              << cidrArgs(options, features), ipv6Args(options, features),
                 outboundAddrArgs(options, features),
                 outboundAddr6Args(options, features) >>,
              1)


\* =================================================================== state
VARIABLES
    engineOptions,  \* r.config.Engine.NetworkCmdOptions
    extraOptions,   \* ctr.config.NetworkOptions["slirp4netns"]
    noPivotRoot,    \* r.config.Engine.NoPivotRoot
    netOptions,     \* netOptions of setupSlirp4netns (a pointer)
    features,       \* slirpFeatures of setupSlirp4netns
    cmdArgs,        \* cmdArgs of setupSlirp4netns
    setupErr,       \* the error setupSlirp4netns returns
    spc,            \* where setupSlirp4netns stands
    child,          \* the helper process: "running", "exited" or "killed"
    childStatus,    \* its exit status once it has exited, -1 otherwise
    reaped,         \* a Wait4 has collected the terminated child
    parentSyncW,    \* the caller still holds its copy of the pipe's write end
    pipe,           \* bytes in the sync pipe that were not read yet
    wrote,          \* the child has written to the sync pipe
    logData,        \* the bytes of the unlinked log file
    logOff,         \* offset of the open file description shared with the child
    wpc,            \* where waitForSync stands
    wresult,        \* what waitForSync returned
    expiries,       \* deadline expiries seen by this call
    seeks,          \* calls of logFile.Seek by this call
    logReads,       \* calls of ioutil.ReadAll(logFile) by this call
    iterWaits,      \* calls of Wait4 in the current turn of the loop
    logContent,     \* what ioutil.ReadAll has read so far (line 384)
    mappings,       \* ctr.config.PortMappings
    sock,           \* the api socket file exists
    registered,     \* the forwards the helper holds
    fpc,            \* where setupRootlessPortMappingViaSlirp stands
    fileWait,       \* how WaitForFile ended
    conns,          \* the connections dialled, in order
    presult,        \* what setupRootlessPortMappingViaSlirp returned
    wstate,         \* where the liveness goroutine stands
    wi,             \* turns of its loop so far
    chClosed,       \* chWait is closed
    configured,     \* r.config.Engine.NetworkCmdPath is set
    binary,         \* the binary exists: at that path, or else in PATH
    helpTexts,      \* the help outputs the binary at path may print
    postConfigureNetNS, \* ctr.config.PostConfigureNetNS
    advisory,       \* the "could not find slirp4netns" line was logged
    parentSyncR,    \* the caller holds the read end of the sync pipe
    nsSyncR,        \* the caller's ctr.rootlessSlirpSyncR: "none", "open", "closed"
    logPath,        \* the log file's path exists in TmpDir
    logFd,          \* logFile: "none", "open" or "closed"
    released,       \* cmd.Process.Release was called
    forwarder,      \* the port forwarder setupSlirp4netns invoked
    rpc,            \* where setupRootlessPortMappingViaRLK stands
    rerr,           \* the error it returned
    slirp4CIDR,     \* its argument slirp4CIDR
    networkStatus,  \* ctr.state.NetworkStatus: per network its addresses
    childIP,        \* the ChildIP of the rootlessport configuration
    stdoutStr,      \* what the rootlessport child printed to its stdout
    errPipe,        \* its stderr still in the pipe os/exec made for line 476
    portSyncR,      \* the caller's ctr.rootlessPortSyncR: "none", "open", "closed"
    frame           \* the locals of the other of the two functions (line 350)

cfgVars == <<engineOptions, extraOptions, noPivotRoot, netOptions, features,
             cmdArgs, setupErr, spc>>

procVars == <<child, childStatus, reaped, parentSyncW, pipe, wrote, logData, logOff>>

syncVars == <<wpc, wresult, expiries, seeks, logReads, iterWaits, logContent>>

portVars == <<mappings, sock, registered, fpc, fileWait, conns, presult, wstate, wi, chClosed>>

envVars == <<configured, binary, helpTexts, postConfigureNetNS>>

resVars == <<advisory, parentSyncR, nsSyncR, logPath, logFd, released, forwarder>>

rlkVars == <<rpc, rerr, slirp4CIDR, networkStatus, childIP, stdoutStr, errPipe, portSyncR>>

vars == <<cfgVars, procVars, syncVars, portVars, envVars, resVars, rlkVars, frame>>

\* ------------------------------------------------------ option text used
Opt(key, value) == key \o <<"=">> \o value

\* An IPv4 subnet in the IPv6 notation.
S_mappedSubnet ==
    <<":",":","f","f","f","f",":","1","0",".","0",".","2",".","0","/","1","2","0">>

\* A number past the range of int.
S_bigNumber ==
    <<"9","2","2","3","3","7","2","0","3","6","8","5","4","7","7","5","8","0","8">>

\* Entries every parser accepts: two values for each key.
ValidEntries ==
    { Opt(S_cidr, <<"1","0",".","0",".","2",".","0","/","2","4">>),
      Opt(S_cidr, S_mappedSubnet),
      Opt(S_port_handler, S_slirp4netns),
      Opt(S_port_handler, S_rootlesskit),
      Opt(S_allow_host_loopback, S_true),
      Opt(S_allow_host_loopback, S_false),
      Opt(S_enable_ipv6, S_true),
      Opt(S_enable_ipv6, S_false),
      Opt(S_outbound_addr, <<"1","0",".","0",".","0",".","1">>),
      Opt(S_outbound_addr, <<"e","t","h","0">>),
      Opt(S_outbound_addr6, <<":",":","1">>),
      Opt(S_outbound_addr6, <<"f","d","0","0",":",":","2">>),
      Opt(S_mtu, <<"6","8">>),
      Opt(S_mtu, <<"1","5","0","0">>) }

\* Entries the parser refuses.
InvalidEntries ==
    { S_mtu,
      Opt(<<"d","n","s">>, S_true),
      Opt(S_cidr, <<"f","d","0","0",":",":","/","6","4">>),
      Opt(S_port_handler, <<"n","o","n","e">>),
      Opt(S_enable_ipv6, <<"y","e","s">>),
      Opt(S_outbound_addr6, <<"1","0",".","0",".","0",".","1">>),
      Opt(S_mtu, <<"6","7">>),
      Opt(S_mtu, <<"0">>),
      Opt(S_mtu, <<"1","k">>),
      Opt(S_mtu, S_bigNumber),
      Opt(S_allow_host_loopback, <<"1">>) }

\* The entries of the runs that go on to probe and build.
ConfigEntries ==
    { Opt(S_cidr, <<"1","0",".","0",".","2",".","0","/","2","4">>),
      Opt(S_port_handler, S_slirp4netns),
      Opt(S_allow_host_loopback, S_true),
      Opt(S_enable_ipv6, S_true),
      Opt(S_enable_ipv6, S_false),
      Opt(S_outbound_addr, <<"1","0",".","0",".","0",".","1">>),
      Opt(S_outbound_addr6, <<":",":","1">>),
      Opt(S_mtu, <<"1","5","0","0">>) }

\* All lists of at most n entries of S.
Lists(S, n) == UNION { [1..k -> S] : k \in 0..n }

Range(q) == { q[i] : i \in 1..Len(q) }

\* ------------------------------------------------------ setupSlirp4netns
\* The deferred calls of setupSlirp4netns, run when it returns: the closes of
\* syncR and syncW (lines 255-256), of ctr.rootlessSlirpSyncR where line 299
\* deferred it, of logFile (line 325), and the Release of lines 336-340.
RunDeferred(returns, nsDeferred) ==
    /\ parentSyncR' = (parentSyncR /\ ~returns)
    /\ parentSyncW' = (parentSyncW /\ ~returns)
    /\ nsSyncR' = IF returns /\ nsDeferred /\ nsSyncR = "open" THEN "closed" ELSE nsSyncR
    /\ logFd' = IF returns /\ logFd = "open" THEN "closed" ELSE logFd
    /\ released' = (released \/ (returns /\ child # "none"))

\* Lines 261-268: the container's entries are parsed after the engine's.
SetupParse ==
    /\ spc = "parse"
    /\ LET r == parseSlirp4netnsNetworkOptions(engineOptions, noPivotRoot, extraOptions)
       IN  /\ netOptions' = r.opts
           /\ setupErr' = r.err
           /\ spc' = IF r.err # NoErr THEN "returned" ELSE "probe"
    /\ UNCHANGED <<engineOptions, extraOptions, noPivotRoot, features, cmdArgs>>
    /\ RunDeferred(spc' = "returned", FALSE)
    /\ UNCHANGED <<child, childStatus, reaped, pipe, wrote, logData, logOff>>
    /\ UNCHANGED <<syncVars, portVars, envVars, frame, rlkVars, advisory, logPath, forwarder>>

\* Lines 269-272: a binary that is there prints its help text; the run of
\* `path --help` may also fail.
SetupProbe ==
    /\ spc = "probe"
    /\ \/ \E out \in helpTexts :
            /\ binary
            /\ features' = checkSlirpFlags(out)
            /\ spc' = "build"
            /\ UNCHANGED setupErr
       \/ /\ setupErr' = Errorf("error checking slirp4netns binary", Empty)
          /\ spc' = "returned"
          /\ UNCHANGED features
    /\ UNCHANGED <<engineOptions, extraOptions, noPivotRoot, netOptions, cmdArgs>>
    /\ RunDeferred(spc' = "returned", FALSE)
    /\ UNCHANGED <<child, childStatus, reaped, pipe, wrote, logData, logOff>>
    /\ UNCHANGED <<syncVars, portVars, envVars, frame, rlkVars, advisory, logPath, forwarder>>

\* Lines 273-276.
SetupBuild ==
    /\ spc = "build"
    /\ LET r == createBasicSlirp4netnsCmdArgs(netOptions.v, features)
       IN  /\ cmdArgs' = r.args
           /\ setupErr' = r.err
           /\ spc' = IF r.err # NoErr THEN "returned" ELSE "built"
    /\ UNCHANGED <<engineOptions, extraOptions, noPivotRoot, netOptions, features>>
    /\ RunDeferred(spc' = "returned", FALSE)
    /\ UNCHANGED <<child, childStatus, reaped, pipe, wrote, logData, logOff>>
    /\ UNCHANGED <<syncVars, portVars, envVars, frame, rlkVars, advisory, logPath, forwarder>>

\* ----------------------------------------------------- the helper process
\* The child as cmd.Start leaves it (lines 306-335): running, nothing
\* written, the caller still holding syncW (closed only by the deferred call
\* of line 256 or 407, when the caller returns).
\* No call of setupRootlessPortMappingViaRLK was made.
NoFrame == [owner |-> "none"]

\* syncR, syncW, logFile, logPath and cmd are locals of setupSlirp4netns and
\* of setupRootlessPortMappingViaRLK alike: the variables hold those of the
\* function that runs, the frame those of the other, under its name, as far
\* as its deferred calls use them.
Frame(owner) ==
    [owner |-> owner, parentSyncR |-> parentSyncR, parentSyncW |-> parentSyncW,
     logPath |-> logPath, logFd |-> logFd, started |-> child # "none",
     released |-> released]

\* setupRootlessPortMappingViaRLK runs.
InRlk == frame.owner = "setup"

\* From the call of line 350 on the process followed is the rootlessport
\* child: the program reads nothing of the slirp4netns helper any more.
RlkChild == forwarder = "rlk"

ProcStarted ==
    /\ child = "running"
    /\ childStatus = -1
    /\ reaped = FALSE
    /\ parentSyncW = TRUE
    /\ pipe = 0
    /\ wrote = FALSE
    /\ logData = <<>>
    /\ logOff = 0

LogBytes == {"a", "b"}

\* write(2) of one byte at the shared offset of the log.
writeAt(data, off, b) ==
    SubSeq(data, 1, off) \o <<b>> \o SubSeq(data, off + 2, Len(data))

\* The child prints a byte to its stdout or stderr, which are the log file
\* itself (lines 331-332).
ChildLog ==
    /\ ~RlkChild
    /\ child = "running"
    /\ Len(logData) < MaxLog
    /\ \E b \in LogBytes : logData' = writeAt(logData, logOff, b)
    /\ logOff' = logOff + 1
    /\ UNCHANGED <<child, childStatus, reaped, parentSyncW, pipe, wrote>>
    /\ UNCHANGED <<cfgVars, syncVars, portVars, envVars, frame, rlkVars, resVars>>

\* The child writes n bytes to the ready fd (fd 4 of line 283).
ChildReady ==
    /\ child = "running"
    /\ \E n \in 1..(MaxPipe - pipe) : pipe' = pipe + n
    /\ wrote' = TRUE
    /\ UNCHANGED <<child, childStatus, reaped, parentSyncW, logData, logOff>>
    /\ UNCHANGED <<cfgVars, syncVars, portVars, envVars, frame, rlkVars, resVars>>

\* The child exits with status 0 or 1.
ChildExit ==
    /\ child = "running"
    /\ child' = "exited"
    /\ childStatus' \in {0, 1}
    /\ UNCHANGED <<reaped, parentSyncW, pipe, wrote, logData, logOff>>
    /\ UNCHANGED <<cfgVars, syncVars, portVars, envVars, frame, rlkVars, resVars>>

\* The child is killed by a signal.
ChildKilled ==
    /\ child = "running"
    /\ child' = "killed"
    /\ UNCHANGED <<childStatus, reaped, parentSyncW, pipe, wrote, logData, logOff>>
    /\ UNCHANGED <<cfgVars, syncVars, portVars, envVars, frame, rlkVars, resVars>>

\* ------------------------------------------------------------- waitForSync
NoResult == [kind |-> "none", log |-> Empty]

\* A nil error.
Ready == [kind |-> "nil", log |-> Empty]

\* errors.Errorf("%s failed: %q", prog, logContent) (line 388).
HelperFailed(content) == [kind |-> "HelperFailed", log |-> content]

\* errors.Errorf("%s killed by signal", prog) (line 391).
HelperKilled == [kind |-> "HelperKilled", log |-> Empty]

\* errors.Wrapf(err, "failed to read from %s sync pipe", prog) (line 395).
ReadError == [kind |-> "ReadError", log |-> Empty]

\* A call of waitForSync (lines 342 and 488): its locals start afresh.
CallWaitForSync ==
    /\ wpc' = "read"
    /\ wresult' = NoResult
    /\ expiries' = 0
    /\ seeks' = 0
    /\ logReads' = 0
    /\ iterWaits' = 0
    /\ logContent' = Empty

\* len(b) of line 360.
syncBufLen == 16

\* A pipe whose write end only the child holds.
WriterOpenChildOnly == child = "running"

\* Some process still holds the write end of the sync pipe.
WriterOpen == parentSyncW \/ child = "running"

\* A read that succeeds only once the whole buffer can be filled.
readOutcomeFullBuffer(inPipe, writerOpen) ==
    IF inPipe >= syncBufLen THEN "data"
    ELSE IF ~writerOpen THEN "eof"
    ELSE "timeout"

\* syncR.Read(b) under the deadline of line 362 (lines 366-369): data when
\* the pipe holds any, end of file when it is empty and no write end is
\* open, else the deadline expires.
readOutcome(inPipe, writerOpen) ==
    IF inPipe > 0 THEN "data"
    ELSE IF ~writerOpen THEN "eof"
    ELSE "timeout"

\* A status check without the pid test of line 376: the zero status of a
\* running child reads as exited.
waitOutcomeNoPidTest(childState) ==
    IF childState = "killed" THEN "killed" ELSE "exited"

\* A status check that never sees the child ended.
waitOutcomeNeverEnded(childState) == "continue"

\* syscall.Wait4(pid, &status, WNOHANG) and the tests of lines 376-393.
waitOutcome(childState) ==
    IF childState = "running" THEN "continue"
    ELSE IF childState = "exited" THEN "exited"
    ELSE "killed"

\* logFile.Seek(0, 0) (line 381): the offset the read starts from.
seekTarget(off) == 0

\* A read of the log by ioutil.ReadAll (line 384): everything from the
\* offset on.
readAll(data, off) == SubSeq(data, off + 1, Len(data))

Min(a, b) == IF a < b THEN a ELSE b

\* Lines 362-369 and 395: the deadline is set and the pipe read.
WfsRead ==
    /\ wpc = "read"
    /\ LET r == readOutcome(pipe, WriterOpen)
       IN  /\ pipe' = IF r = "data" THEN pipe - Min(pipe, syncBufLen) ELSE pipe
           /\ wpc' = IF r = "timeout" THEN "wait4" ELSE "done"
           /\ wresult' = IF r = "data" THEN Ready
                         ELSE IF r = "eof" THEN ReadError ELSE wresult
           /\ expiries' = IF r = "timeout" THEN Min(expiries + 1, MaxExpiries) ELSE expiries
    /\ UNCHANGED <<child, childStatus, reaped, parentSyncW, wrote, logData, logOff>>
    /\ UNCHANGED <<seeks, logReads, iterWaits, logContent>>
    /\ UNCHANGED <<cfgVars, portVars, envVars, frame, rlkVars, resVars>>

\* Lines 370-378 and 390-393: after an expiry the child's status is polled;
\* a running child sends the loop round again, a killed one ends the call.
WfsWait4 ==
    /\ wpc = "wait4"
    /\ LET w == waitOutcome(child)
       IN  /\ reaped' = (reaped \/ w # "continue")
           /\ wpc' = IF w = "continue" THEN "read"
                     ELSE IF w = "exited" THEN "seek" ELSE "done"
           /\ iterWaits' = IF w = "continue" THEN 0 ELSE iterWaits + 1
           /\ wresult' = IF w = "killed" THEN HelperKilled ELSE wresult
    /\ UNCHANGED <<child, childStatus, parentSyncW, pipe, wrote, logData, logOff>>
    /\ UNCHANGED <<expiries, seeks, logReads, logContent>>
    /\ UNCHANGED <<cfgVars, portVars, envVars, frame, rlkVars, resVars>>

\* Line 381: the log is rewound.
WfsSeek ==
    /\ wpc = "seek"
    /\ logOff' = seekTarget(logOff)
    /\ seeks' = seeks + 1
    /\ wpc' = "readall"
    /\ UNCHANGED <<child, childStatus, reaped, parentSyncW, pipe, wrote, logData>>
    /\ UNCHANGED <<wresult, expiries, logReads, iterWaits, logContent>>
    /\ UNCHANGED <<cfgVars, portVars, envVars, frame, rlkVars, resVars>>

\* Lines 384-388: one read of ioutil.ReadAll; a read that finds nothing past
\* the offset is the end of the file, and the call returns what was read.
WfsReadAll ==
    /\ wpc = "readall"
    /\ IF readAll(logData, logOff) = <<>>
       THEN /\ wpc' = "done"
            /\ wresult' = HelperFailed(logContent)
            /\ logReads' = logReads + 1
            /\ UNCHANGED <<logOff, logContent>>
       ELSE /\ logContent' = logContent \o readAll(logData, logOff)
            /\ logOff' = Len(logData)
            /\ UNCHANGED <<wpc, wresult, logReads>>
    /\ UNCHANGED <<child, childStatus, reaped, parentSyncW, pipe, wrote, logData>>
    /\ UNCHANGED <<expiries, seeks, iterWaits>>
    /\ UNCHANGED <<cfgVars, portVars, envVars, frame, rlkVars, resVars>>

\* ---------------------------------------- setupRootlessPortMappingViaSlirp
PortMapping(protocol, hostIP, hostPort, containerPort) ==
    [Protocol |-> protocol, HostIP |-> hostIP,
     HostPort |-> hostPort, ContainerPort |-> containerPort]

PortMappings ==
    { PortMapping("tcp", "", 8080, 80),
      PortMapping("udp", "127.0.0.1", 5353, 53) }

\* The apiCmd of lines 541-554, as json.Marshal writes it (lines 70-81).
slirp4netnsCmdArg(proto, hostAddr, hostPort, guestPort) ==
    IF proto = ""
    THEN [host_addr |-> hostAddr, host_port |-> hostPort,
          guest_addr |-> "", guest_port |-> guestPort]
    ELSE [proto |-> proto, host_addr |-> hostAddr, host_port |-> hostPort,
          guest_addr |-> "", guest_port |-> guestPort]

slirp4netnsCmd(i) ==
    [execute |-> "add_hostfwd",
     arguments |-> slirp4netnsCmdArg(i.Protocol,
                                     IF i.HostIP = "" THEN "0.0.0.0" ELSE i.HostIP,
                                     i.HostPort, i.ContainerPort)]

\* What a connection's peer sent back: a JSON value with the keys of its
\* top-level object, or the "eof" of a peer that closed without an answer.
Response(json, keys) == [json |-> json, keys |-> keys]

NoResponse == Response("none", {})

\* Answers of the helper: a forward added, a request refused, and the
\* shapes json.Unmarshal tells apart.
Replies ==
    { Response("object", {"return"}),
      Response("object", {}),
      Response("object", {"error"}),
      Response("null", {}),
      Response("array", {}),
      Response("invalid", {}),
      Response("eof", {}) }

\* The helper added the forward it answered for.
Registers(r) == r.json = "object" /\ "error" \notin r.keys

\* net.Dial's connection (line 532).
NewConn == [closes |-> 0, reqs |-> <<>>, wclosed |-> FALSE, resp |-> NoResponse]

NoCall == [kind |-> "none", status |-> 0]

PortsReady == [kind |-> "nil", status |-> 0]

\* The wrapped errors of lines 526-578.
PortError(kind, status) == [kind |-> kind, status |-> status]

PortsIdle ==
    /\ mappings = <<>>
    /\ sock = FALSE
    /\ registered = <<>>
    /\ fpc = "idle"
    /\ fileWait = "pending"
    /\ conns = <<>>
    /\ presult = NoCall
    /\ wstate = "idle"
    /\ wi = 0
    /\ chClosed = FALSE

\* The command line names an api socket (line 288).
hasApiSocket(args) ==
    /\ args # Nil
    /\ \E i \in 1..Len(args) : args[i].flag = "--api-socket"

\* The helper creates the api socket it was given.
HelperListen ==
    /\ ~RlkChild
    /\ hasApiSocket(cmdArgs)
    /\ child = "running"
    /\ ~sock
    /\ sock' = TRUE
    /\ UNCHANGED <<mappings, registered, fpc, fileWait, conns, presult, wstate, wi, chClosed>>
    /\ UNCHANGED <<cfgVars, procVars, syncVars, envVars, frame, rlkVars, resVars>>

\* The helper reads a request up to the end the client marked (line 563)
\* and answers it.
HelperHandle ==
    /\ ~RlkChild
    /\ child = "running"
    /\ conns # <<>>
    /\ LET k == Len(conns)
       IN  /\ conns[k].wclosed
           /\ conns[k].closes = 0
           /\ conns[k].resp = NoResponse
           /\ \E r \in Replies :
                /\ conns' = [conns EXCEPT ![k].resp = r]
                /\ registered' = IF Registers(r)
                                 THEN Append(registered, conns[k].reqs[1].arguments)
                                 ELSE registered
    /\ UNCHANGED <<mappings, sock, fpc, fileWait, presult, wstate, wi, chClosed>>
    /\ UNCHANGED <<cfgVars, procVars, syncVars, envVars, frame, rlkVars, resVars>>

\* Deferred closures that share one conn variable: each closes the
\* connection dialled last.
deferredTargetShared(j, n) == n

\* The closure deferred at lines 536-540 in turn j of the loop closes the
\* conn declared in that turn.
deferredTarget(j, n) == j

closedBy(i, n) == Cardinality({j \in 1..n : deferredTarget(j, n) = i})

\* The deferred calls run at return: every closure of lines 536-540.
closeDeferred(cs) ==
    [i \in 1..Len(cs) |-> [cs[i] EXCEPT !.closes = @ + closedBy(i, Len(cs))]]

\* A return of setupRootlessPortMappingViaSlirp: the deferred closes run,
\* then the close(chWait) of line 522.
Return(err, cs) ==
    /\ fpc' = "returned"
    /\ presult' = err
    /\ conns' = closeDeferred(cs)
    /\ chClosed' = TRUE

\* WaitForFile(apiSocket, chWait, pidWaitTimeout): the ways it can end. It
\* reports the file once a stat finds it, an error received from chWait, or
\* the timeout.
WaitForFile(fileExists, senderReady) ==
    (IF fileExists THEN {"found"} ELSE {}) \cup
    (IF senderReady THEN {"chan"} ELSE {}) \cup
    {"timeout"}

\* A wait whose error is not looked at.
waitFailedIgnored(o) == FALSE

\* err != nil of line 525.
waitFailed(o) == o # "found"

Crashed == wstate = "panicked"

\* Lines 524-527.
PfWaitForFile ==
    /\ fpc = "waitfile"
    /\ ~Crashed
    /\ \E o \in WaitForFile(sock, wstate = "send") :
         /\ fileWait' = o
         /\ wstate' = IF o = "chan" THEN "sleep" ELSE wstate
         /\ IF waitFailed(o)
            THEN Return(PortError("WaitForFile", IF o = "chan" THEN childStatus ELSE 0), conns)
            ELSE /\ fpc' = "dial"
                 /\ UNCHANGED <<presult, conns, chClosed>>
    /\ UNCHANGED <<mappings, sock, registered, wi>>
    /\ UNCHANGED <<cfgVars, procVars, syncVars, envVars, frame, rlkVars, resVars>>

\* connect(2) on the socket path: the file is there and the helper listens.
dialOk(fileExists, childState) == fileExists /\ childState = "running"

\* Lines 531-540.
PfDial ==
    /\ fpc = "dial"
    /\ ~Crashed
    /\ IF dialOk(sock, child)
       THEN /\ conns' = Append(conns, NewConn)
            /\ fpc' = "write"
            /\ UNCHANGED <<presult, chClosed>>
       ELSE Return(PortError("Dial", 0), conns)
    /\ UNCHANGED <<mappings, sock, registered, fileWait, wstate, wi>>
    /\ UNCHANGED <<cfgVars, procVars, syncVars, envVars, frame, rlkVars, resVars>>

\* write(2) on a connection whose peer is gone fails.
writeOk(childState) == childState = "running"

\* Lines 541-562.
PfWrite ==
    /\ fpc = "write"
    /\ ~Crashed
    /\ IF writeOk(child)
       THEN /\ conns' = [conns EXCEPT ![Len(conns)].reqs =
                             Append(@, slirp4netnsCmd(mappings[Len(conns)]))]
            /\ fpc' = "closewrite"
            /\ UNCHANGED <<presult, chClosed>>
       ELSE Return(PortError("Write", 0), conns)
    /\ UNCHANGED <<mappings, sock, registered, fileWait, wstate, wi>>
    /\ UNCHANGED <<cfgVars, procVars, syncVars, envVars, frame, rlkVars, resVars>>

\* shutdown(2) of the write side: succeeds towards a live peer; towards a
\* peer that is gone the platform may report an error.
closeWriteOk(childState) == IF childState = "running" THEN {TRUE} ELSE {TRUE, FALSE}

\* Lines 563-565.
PfCloseWrite ==
    /\ fpc = "closewrite"
    /\ ~Crashed
    /\ \E ok \in closeWriteOk(child) :
         IF ok
         THEN /\ conns' = [conns EXCEPT ![Len(conns)].wclosed = TRUE]
              /\ fpc' = "read"
              /\ UNCHANGED <<presult, chClosed>>
         ELSE Return(PortError("CloseWrite", 0), conns)
    /\ UNCHANGED <<mappings, sock, registered, fileWait, wstate, wi>>
    /\ UNCHANGED <<cfgVars, procVars, syncVars, envVars, frame, rlkVars, resVars>>

\* json.Unmarshal(buf[0:readLength], &y) into a map (lines 573-576): an
\* object gives its keys, null leaves the map nil, anything else fails.
Unmarshal(r) ==
    IF r.json = "object" THEN [err |-> FALSE, y |-> r.keys]
    ELSE IF r.json = "null" THEN [err |-> FALSE, y |-> {}]
    ELSE [err |-> TRUE, y |-> {}]

\* A response check that never finds the key.
foundErrorNever(y) == FALSE

\* _, found := y["error"] (line 577).
foundError(y) == "error" \in y

\* Lines 567-579 on what the connection delivers.
checkResponse(r) ==
    IF r.json \in {"none", "eof"} THEN "Read"
    ELSE IF Unmarshal(r).err THEN "Unmarshal"
    ELSE IF foundError(Unmarshal(r).y) THEN "Rejected"
    ELSE "ok"

\* After a mapping went through: the next turn of the loop, or lines 581-582.
nextMapping(verdict, k, n, cs) ==
    IF verdict # "ok" THEN Return(PortError(verdict, 0), cs)
    ELSE IF k = n THEN Return(PortsReady, cs)
    ELSE /\ fpc' = "dial"
         /\ UNCHANGED <<presult, conns, chClosed>>

\* Lines 566-580: the read returns once the helper answered or is gone.
PfRead ==
    /\ fpc = "read"
    /\ ~Crashed
    /\ conns[Len(conns)].resp # NoResponse \/ child # "running"
    /\ nextMapping(checkResponse(conns[Len(conns)].resp), Len(conns), Len(mappings), conns)
    /\ UNCHANGED <<mappings, sock, registered, fileWait, wstate, wi>>
    /\ UNCHANGED <<cfgVars, procVars, syncVars, envVars, frame, rlkVars, resVars>>

\* i += interval and the test i < pidWaitTimeout (line 506).
nextTurn(i) == IF i + 1 < MaxPolls THEN "poll" ELSE "done"

\* What a read of cmd.Process.Pid can give. The deferred Release of lines
\* 336-340 sets the field to -1 and nothing orders that write with the
\* reads of the goroutine, which see the pid or the -1 from then on.
PidReads(isReleased) == IF isReleased THEN {"pid", "released"} ELSE {"pid"}

\* Lines 509-517 on one Wait4 with WNOHANG, of the pid or of -1 (any child;
\* the helper is the only one here): ECHILD ends the loop, a running child
\* gives 0 and the next turn, a terminated one is collected and its pid
\* compared with the field as it is read at line 513.
pollOutcome(isReaped, childState, pidRead) ==
    IF isReaped THEN "break"
    ELSE IF childState = "running" THEN "continue"
    ELSE IF pidRead = "pid" THEN "send"
    ELSE "continue"

\* Lines 507-517: one turn of the liveness goroutine up to the send; a
\* continue goes round without the sleep.
WatcherPoll ==
    /\ wstate = "poll"
    /\ \E pidRead \in PidReads(released) :
         LET o == pollOutcome(reaped, child, pidRead)
         IN  /\ wstate' = IF o = "break" THEN "done"
                          ELSE IF o = "continue" THEN nextTurn(wi)
                          ELSE "send"
             /\ wi' = IF o = "continue" THEN wi + 1 ELSE wi
    /\ reaped' = (reaped \/ child # "running")
    /\ UNCHANGED <<mappings, sock, registered, fpc, fileWait, conns, presult, chClosed>>
    /\ UNCHANGED <<child, childStatus, parentSyncW, pipe, wrote, logData, logOff>>
    /\ UNCHANGED <<cfgVars, syncVars, envVars, frame, rlkVars, resVars>>

\* Line 517 once chWait is closed: the send panics.
WatcherPanic ==
    /\ wstate = "send"
    /\ chClosed
    /\ wstate' = "panicked"
    /\ UNCHANGED <<mappings, sock, registered, fpc, fileWait, conns, presult, wi, chClosed>>
    /\ UNCHANGED <<cfgVars, procVars, syncVars, envVars, frame, rlkVars, resVars>>

\* Line 519 after the send went through.
WatcherSleep ==
    /\ wstate = "sleep"
    /\ wstate' = nextTurn(wi)
    /\ wi' = wi + 1
    /\ UNCHANGED <<mappings, sock, registered, fpc, fileWait, conns, presult, chClosed>>
    /\ UNCHANGED <<cfgVars, procVars, syncVars, envVars, frame, rlkVars, resVars>>

\* --------------------------------------- setupSlirp4netns, the whole call
S_apiSocket == <<"/","t","m","p","/","c","1",".","n","e","t">>

S_netnsPath == <<"/","r","u","n","/","n","e","t","n","s","/","c","1">>

S_tap0 == <<"t","a","p","0">>

\* An element of the argument vector that is a plain word.
Word(text) == Arg("", text)

\* Line 258.
havePortMapping == Len(mappings) > 0

\* Line 283.
fixedArgs == <<Arg("-c", Empty), Arg("-e", Empty), Word(<<"3">>), Arg("-r", Empty), Word(<<"4">>)>>

\* An api socket asked for whenever there are port mappings.
apiSocketArgsAnyHandler(hasMappings, options) ==
    IF hasMappings THEN <<Arg("--api-socket", Empty), Word(S_apiSocket)>> ELSE <<>>

\* Lines 285-289.
apiSocketArgs(hasMappings, options) ==
    IF hasMappings /\ options.isSlirpHostForward
    THEN <<Arg("--api-socket", Empty), Word(S_apiSocket)>> ELSE <<>>

\* Lines 291-304: the namespace by path, or by the container's pid.
netnsArgs(postConfigure) ==
    IF ~postConfigure
    THEN <<Arg("--netns-type=path", Empty), Word(S_netnsPath), Word(S_tap0)>>
    ELSE <<Word(FormatInt(IntOf(4242))), Word(S_tap0)>>

\* A return of setupSlirp4netns with its deferred calls.
SetupReturn(err, nsDeferred) ==
    /\ spc' = "returned"
    /\ setupErr' = err
    /\ RunDeferred(TRUE, nsDeferred)

\* A lookup that never reports the binary missing.
lookPathFailsNever(isConfigured, found) == FALSE

\* Lines 241-245: PATH is searched only when no path is configured.
lookPathFails(isConfigured, found) == ~isConfigured /\ ~found

\* Lines 241-249: when the search fails the call logs and returns nil.
SetupLookPath ==
    /\ spc = "lookpath"
    /\ spc' = IF lookPathFails(configured, binary) THEN "returned" ELSE "pipe"
    /\ advisory' = lookPathFails(configured, binary)
    /\ UNCHANGED <<engineOptions, extraOptions, noPivotRoot, netOptions, features, cmdArgs, setupErr>>
    /\ UNCHANGED <<parentSyncR, nsSyncR, logPath, logFd, released, forwarder>>
    /\ UNCHANGED <<procVars, syncVars, portVars, envVars, frame, rlkVars>>

\* Lines 251-256.
SetupPipe ==
    /\ spc = "pipe"
    /\ \E ok \in BOOLEAN :
         /\ parentSyncR' = ok
         /\ parentSyncW' = ok
         /\ spc' = IF ok THEN "parse" ELSE "returned"
         /\ setupErr' = IF ok THEN setupErr ELSE Errorf("failed to open pipe", Empty)
    /\ UNCHANGED <<engineOptions, extraOptions, noPivotRoot, netOptions, features, cmdArgs>>
    /\ UNCHANGED <<child, childStatus, reaped, pipe, wrote, logData, logOff>>
    /\ UNCHANGED <<advisory, nsSyncR, logPath, logFd, released, forwarder>>
    /\ UNCHANGED <<syncVars, portVars, envVars, frame, rlkVars>>

\* Lines 283-304: the fixed flags, the api socket, the namespace; without
\* PostConfigureNetNS a second pipe is opened for the container.
SetupArgs ==
    /\ spc = "built"
    /\ \E ok \in (IF postConfigureNetNS THEN {TRUE} ELSE BOOLEAN) :
         IF ok
         THEN /\ cmdArgs' = cmdArgs \o fixedArgs
                                \o apiSocketArgs(havePortMapping, netOptions.v)
                                \o netnsArgs(postConfigureNetNS)
              /\ nsSyncR' = "open"
              /\ spc' = "create"
              /\ UNCHANGED <<setupErr, parentSyncR, parentSyncW, logFd, released>>
         ELSE /\ cmdArgs' = cmdArgs \o fixedArgs \o apiSocketArgs(havePortMapping, netOptions.v)
              /\ SetupReturn(Errorf("failed to create rootless network sync pipe", Empty), FALSE)
    /\ UNCHANGED <<engineOptions, extraOptions, noPivotRoot, netOptions, features>>
    /\ UNCHANGED <<child, childStatus, reaped, pipe, wrote, logData, logOff>>
    /\ UNCHANGED <<advisory, logPath, forwarder>>
    /\ UNCHANGED <<syncVars, portVars, envVars, frame, rlkVars>>

\* Lines 321-325.
SetupLogCreate ==
    /\ spc = "create"
    /\ \E ok \in BOOLEAN :
         IF ok
         THEN /\ logPath' = TRUE
              /\ logFd' = "open"
              /\ spc' = "remove"
              /\ UNCHANGED <<setupErr, parentSyncR, parentSyncW, nsSyncR, released>>
         ELSE /\ SetupReturn(Errorf("failed to open slirp4netns log file", Empty), postConfigureNetNS)
              /\ UNCHANGED logPath
    /\ UNCHANGED <<engineOptions, extraOptions, noPivotRoot, netOptions, features, cmdArgs>>
    /\ UNCHANGED <<child, childStatus, reaped, pipe, wrote, logData, logOff>>
    /\ UNCHANGED <<advisory, forwarder>>
    /\ UNCHANGED <<syncVars, portVars, envVars, frame, rlkVars>>

\* Lines 328-330.
SetupLogRemove ==
    /\ spc = "remove"
    /\ \E ok \in BOOLEAN :
         IF ok
         THEN /\ logPath' = FALSE
              /\ spc' = "start"
              /\ UNCHANGED <<setupErr, parentSyncR, parentSyncW, nsSyncR, logFd, released>>
         ELSE /\ SetupReturn(Errorf("delete file", Empty), postConfigureNetNS)
              /\ UNCHANGED logPath
    /\ UNCHANGED <<engineOptions, extraOptions, noPivotRoot, netOptions, features, cmdArgs>>
    /\ UNCHANGED <<child, childStatus, reaped, pipe, wrote, logData, logOff>>
    /\ UNCHANGED <<advisory, forwarder>>
    /\ UNCHANGED <<syncVars, portVars, envVars, frame, rlkVars>>

\* Lines 306-342: the child is started and waitForSync called.
SetupStart ==
    /\ spc = "start"
    /\ \E ok \in BOOLEAN :
         IF ok
         THEN /\ child' = "running"
              /\ CallWaitForSync
              /\ spc' = "waitForSync"
              /\ UNCHANGED <<setupErr, parentSyncR, parentSyncW, nsSyncR, logFd, released>>
         ELSE /\ SetupReturn(Errorf("failed to start slirp4netns process", Empty), postConfigureNetNS)
              /\ UNCHANGED <<child, syncVars>>
    /\ UNCHANGED <<engineOptions, extraOptions, noPivotRoot, netOptions, features, cmdArgs>>
    /\ UNCHANGED <<childStatus, reaped, pipe, wrote, logData, logOff>>
    /\ UNCHANGED <<advisory, logPath, forwarder>>
    /\ UNCHANGED <<portVars, envVars, frame, rlkVars>>

\* Lines 346-352.
chooseForwarder(hasMappings, options) ==
    IF hasMappings
    THEN IF options.isSlirpHostForward THEN "slirp" ELSE "rlk"
    ELSE "none"

\* A call that goes on to the forwarder whatever waitForSync returned.
syncFailedIgnored(r) == FALSE

\* err != nil of line 342.
syncFailed(r) == r # Ready

\* The error of a forwarder as setupSlirp4netns returns it (lines 348, 350).
forwarderErr(r) == IF r = PortsReady THEN NoErr ELSE Errorf(r.kind, r.status)

\* Line 348: setupRootlessPortMappingViaSlirp is entered on the helper that
\* runs; its goroutine is started (line 504).
CallSlirp ==
    /\ fpc' = "waitfile"
    /\ wstate' = "poll"
    /\ UNCHANGED <<child, childStatus, reaped, parentSyncW, pipe, wrote, logData, logOff>>
    /\ UNCHANGED <<parentSyncR, logPath, logFd, released, rpc, slirp4CIDR, frame>>

\* Line 350: setupRootlessPortMappingViaRLK is entered with the subnet of
\* the options; it has no pipe, log file or child yet.
CallRLK ==
    /\ frame' = Frame("setup")
    /\ rpc' = "pipe"
    /\ slirp4CIDR' = netOptions.v.cidr
    /\ child' = "none"
    /\ childStatus' = -1
    /\ reaped' = FALSE
    /\ parentSyncR' = FALSE
    /\ parentSyncW' = FALSE
    /\ pipe' = 0
    /\ wrote' = FALSE
    /\ logData' = <<>>
    /\ logOff' = 0
    /\ logPath' = FALSE
    /\ logFd' = "none"
    /\ released' = FALSE
    /\ UNCHANGED <<fpc, wstate>>

\* No forwarder is called.
NoCallMade ==
    /\ UNCHANGED <<child, childStatus, reaped, pipe, wrote, logData, logOff>>
    /\ UNCHANGED <<logPath, fpc, wstate, rpc, slirp4CIDR, frame>>

\* Lines 342-352: waitForSync has returned; with port mappings one of the
\* two forwarders is called.
SetupSynced ==
    /\ spc = "waitForSync"
    /\ wpc = "done"
    /\ IF syncFailed(wresult)
       THEN /\ SetupReturn(Errorf(wresult.kind, wresult.log), postConfigureNetNS)
            /\ NoCallMade
            /\ UNCHANGED forwarder
       ELSE /\ forwarder' = chooseForwarder(havePortMapping, netOptions.v)
            /\ IF forwarder' = "none"
               THEN /\ SetupReturn(NoErr, postConfigureNetNS)
                    /\ NoCallMade
               ELSE /\ spc' = "forward"
                    /\ IF forwarder' = "slirp" THEN CallSlirp ELSE CallRLK
                    /\ UNCHANGED <<setupErr, nsSyncR>>
    /\ UNCHANGED <<engineOptions, extraOptions, noPivotRoot, netOptions, features, cmdArgs>>
    /\ UNCHANGED <<mappings, sock, registered, fileWait, conns, presult, wi, chClosed>>
    /\ UNCHANGED <<rerr, networkStatus, childIP, stdoutStr, errPipe, portSyncR>>
    /\ UNCHANGED <<advisory, syncVars, envVars>>

\* setupRootlessPortMappingViaRLK has returned to line 350 and
\* setupSlirp4netns returns its error: the locals of setupSlirp4netns are
\* current again and its deferred calls run on them (lines 256-257,
\* 298-304, 324, 336-340).
ReturnToSetup(f) ==
    /\ frame' = Frame("rlk")
    /\ spc' = "returned"
    /\ setupErr' = rerr
    /\ logPath' = f.logPath
    /\ parentSyncR' = FALSE
    /\ parentSyncW' = FALSE
    /\ nsSyncR' = IF postConfigureNetNS /\ nsSyncR = "open" THEN "closed" ELSE nsSyncR
    /\ logFd' = IF f.logFd = "open" THEN "closed" ELSE f.logFd
    /\ released' = (f.released \/ f.started)
    /\ UNCHANGED <<child, childStatus, reaped, pipe, wrote, logData, logOff>>

\* Lines 348 and 350: the forwarder has returned and setupSlirp4netns
\* returns what it got.
SetupForwarded ==
    /\ spc = "forward"
    /\ ~Crashed
    /\ IF forwarder = "slirp"
       THEN /\ fpc = "returned"
            /\ SetupReturn(forwarderErr(presult), postConfigureNetNS)
            /\ UNCHANGED <<child, childStatus, reaped, pipe, wrote, logData, logOff>>
            /\ UNCHANGED <<logPath, frame>>
       ELSE /\ rpc = "returned"
            /\ InRlk
            /\ ReturnToSetup(frame)
    /\ UNCHANGED <<engineOptions, extraOptions, noPivotRoot, netOptions, features, cmdArgs>>
    /\ UNCHANGED <<advisory, forwarder>>
    /\ UNCHANGED <<syncVars, portVars, envVars, rlkVars>>

\* ------------------------------------------ setupRootlessPortMappingViaRLK
\* slirp4netnsIP, the helper's address in its preset subnet.
slirp4netnsIP == <<"1","0",".","0",".","2",".","1","0","0">>

\* Lower-case hexadecimal of n without leading zeros (net.appendHex).
RECURSIVE FormatHex(_)
FormatHex(n) ==
    LET d == <<"0","1","2","3","4","5","6","7","8","9","a","b","c","d","e","f">>[(n % 16) + 1]
    IN  IF n < 16 THEN <<d>> ELSE FormatHex(n \div 16) \o <<d>>

\* The dotted text of four bytes.
dotted(p) ==
    FormatNat(p[1]) \o <<".">> \o FormatNat(p[2]) \o <<".">>
        \o FormatNat(p[3]) \o <<".">> \o FormatNat(p[4])

\* The 16-bit group of a 16-byte address at the 0-based byte index i.
group16(p, i) == p[i + 1] * 256 + p[i + 2]

\* The end of the run of zero groups that starts at byte index i.
RECURSIVE zeroRunEnd(_, _)
zeroRunEnd(p, j) ==
    IF j < 16 /\ p[j + 1] = 0 /\ p[j + 2] = 0 THEN zeroRunEnd(p, j + 2) ELSE j

\* net.IP.String: the search for the longest run of zero groups, <<e0, e1>>.
RECURSIVE longestZeros(_, _, _, _)
longestZerosAt(p, i, j, e0, e1) ==
    IF j > i /\ j - i > e1 - e0 THEN longestZeros(p, j + 2, i, j)
    ELSE longestZeros(p, i + 2, e0, e1)

longestZeros(p, i, e0, e1) ==
    IF i >= 16 THEN <<e0, e1>>
    ELSE longestZerosAt(p, i, zeroRunEnd(p, i), e0, e1)

\* A run of one group is not shortened.
shortened(e) == IF e[2] - e[1] <= 2 THEN <<-1, -1>> ELSE e

\* net.IP.String: the groups from byte index i on, "::" in place of the run.
RECURSIVE printGroups(_, _, _)
printGroups(p, i, e) ==
    IF i >= 16 THEN <<>>
    ELSE IF i = e[1]
    THEN <<":", ":">> \o (IF e[2] >= 16 THEN <<>>
                          ELSE FormatHex(group16(p, e[2])) \o printGroups(p, e[2] + 2, e))
    ELSE (IF i > 0 THEN <<":">> ELSE <<>>)
            \o FormatHex(group16(p, i)) \o printGroups(p, i + 2, e)

\* "?" and the bytes in hexadecimal, for an address of another length.
RECURSIVE hexString(_)
hexString(p) ==
    IF p = <<>> THEN <<>>
    ELSE FormatHex(p[1] \div 16) \o FormatHex(p[1] % 16) \o hexString(Tail(p))

\* net.IP.String(): dotted text for an address with a To4 form, the IPv6
\* text for any other 16-byte address.
IPString(ip) ==
    IF Len(ip) = 0 THEN <<"<","n","i","l",">">>
    ELSE IF To4(ip) # Nil THEN dotted(To4(ip))
    ELSE IF Len(ip) # 16 THEN <<"?">> \o hexString(ip)
    ELSE printGroups(ip, 0, shortened(longestZeros(ip, 0, -1, -1)))

\* The byte addition of line 436.
addByte(b, n) == (b + n) % 256

\* Line 436: cidr.IP[len(cidr.IP)-1] += 100.
hundredth(ip) == [ip EXCEPT ![Len(ip)] = addByte(ip[Len(ip)], 100)]

\* Lines 430-438 on the result of net.ParseCIDR.
cidrChildIP(c) ==
    IF c.err THEN [err |-> TRUE, ip |-> Empty]
    ELSE [err |-> FALSE, ip |-> IPString(hundredth(c.net))]

\* Lines 428-438: the preset address, or the one derived from the subnet.
fallbackChildIP(cidr) ==
    IF cidr # Empty THEN cidrChildIP(ParseCIDR(cidr))
    ELSE [err |-> FALSE, ip |-> slirp4netnsIP]

\* All addresses of the status in scan order (lines 440-441).
RECURSIVE flattenIPs(_, _)
flattenIPs(status, i) ==
    IF i > Len(status) THEN <<>> ELSE status[i] \o flattenIPs(status, i + 1)

\* A scan that keeps the last IPv4 address it meets.
statusChildIPLast(ips, i, fallback) ==
    LET v4 == {j \in 1..Len(ips) : To4(ips[j]) # Nil}
    IN  IF v4 = {} THEN fallback
        ELSE IPString(To4(ips[CHOOSE j \in v4 : \A k \in v4 : k <= j]))

\* Lines 439-448: the first address with a To4 form wins.
RECURSIVE statusChildIP(_, _, _)
statusChildIP(ips, i, fallback) ==
    IF i > Len(ips) THEN fallback
    ELSE IF To4(ips[i]) # Nil THEN IPString(To4(ips[i]))
    ELSE statusChildIP(ips, i + 1, fallback)

\* A return that leaves the log file open.
RlkReturnLogLeft(err, portDeferred) ==
    /\ rpc' = "returned"
    /\ rerr' = err
    /\ parentSyncR' = FALSE
    /\ parentSyncW' = FALSE
    /\ logFd' = logFd
    /\ portSyncR' = IF portDeferred /\ portSyncR = "open" THEN "closed" ELSE portSyncR
    /\ released' = (released \/ child # "none")

\* The deferred calls of setupRootlessPortMappingViaRLK (lines 406-407, 414,
\* 468-470, 483-487), run when it returns.
RlkReturn(err, portDeferred) ==
    /\ rpc' = "returned"
    /\ rerr' = err
    /\ parentSyncR' = FALSE
    /\ parentSyncW' = FALSE
    /\ logFd' = IF logFd = "open" THEN "closed" ELSE logFd
    /\ portSyncR' = IF portDeferred /\ portSyncR = "open" THEN "closed" ELSE portSyncR
    /\ released' = (released \/ child # "none")

\* Lines 402-407.
RlkPipe ==
    /\ rpc = "pipe"
    /\ \E ok \in BOOLEAN :
         /\ parentSyncR' = ok
         /\ parentSyncW' = ok
         /\ rpc' = IF ok THEN "create" ELSE "returned"
         /\ rerr' = IF ok THEN rerr ELSE Errorf("failed to open pipe", Empty)
    /\ UNCHANGED <<child, childStatus, reaped, pipe, wrote, logData, logOff>>
    /\ UNCHANGED <<advisory, nsSyncR, logPath, logFd, released, forwarder>>
    /\ UNCHANGED <<slirp4CIDR, networkStatus, childIP, stdoutStr, errPipe, portSyncR>>
    /\ UNCHANGED <<cfgVars, syncVars, portVars, envVars, frame>>

\* Lines 409-414.
RlkLogCreate ==
    /\ rpc = "create"
    /\ \E ok \in BOOLEAN :
         IF ok
         THEN /\ logPath' = TRUE
              /\ logFd' = "open"
              /\ rpc' = "remove"
              /\ UNCHANGED <<rerr, parentSyncR, parentSyncW, portSyncR, released>>
         ELSE /\ RlkReturn(Errorf("failed to open rootlessport log file", Empty), FALSE)
              /\ UNCHANGED logPath
    /\ UNCHANGED <<child, childStatus, reaped, pipe, wrote, logData, logOff>>
    /\ UNCHANGED <<advisory, nsSyncR, forwarder>>
    /\ UNCHANGED <<slirp4CIDR, networkStatus, childIP, stdoutStr, errPipe>>
    /\ UNCHANGED <<cfgVars, syncVars, portVars, envVars, frame>>

\* Lines 417-419.
RlkLogRemove ==
    /\ rpc = "remove"
    /\ \E ok \in BOOLEAN :
         IF ok
         THEN /\ logPath' = FALSE
              /\ rpc' = "portpipe"
              /\ UNCHANGED <<rerr, parentSyncR, parentSyncW, logFd, portSyncR, released>>
         ELSE /\ RlkReturn(Errorf("delete file", Empty), FALSE)
              /\ UNCHANGED logPath
    /\ UNCHANGED <<child, childStatus, reaped, pipe, wrote, logData, logOff>>
    /\ UNCHANGED <<advisory, nsSyncR, forwarder>>
    /\ UNCHANGED <<slirp4CIDR, networkStatus, childIP, stdoutStr, errPipe>>
    /\ UNCHANGED <<cfgVars, syncVars, portVars, envVars, frame>>

\* Lines 421-426.
RlkPortPipe ==
    /\ rpc = "portpipe"
    /\ \E ok \in (IF postConfigureNetNS THEN {TRUE} ELSE BOOLEAN) :
         IF ok
         THEN /\ portSyncR' = IF postConfigureNetNS THEN portSyncR ELSE "open"
              /\ rpc' = "childip"
              /\ UNCHANGED <<rerr, parentSyncR, parentSyncW, logFd, released>>
         ELSE RlkReturn(Errorf("failed to create rootless port sync pipe", Empty), FALSE)
    /\ UNCHANGED <<child, childStatus, reaped, pipe, wrote, logData, logOff>>
    /\ UNCHANGED <<advisory, nsSyncR, logPath, forwarder>>
    /\ UNCHANGED <<slirp4CIDR, networkStatus, childIP, stdoutStr, errPipe>>
    /\ UNCHANGED <<cfgVars, syncVars, portVars, envVars, frame>>

\* Lines 428-448 on the fallback address.
childIPStep(fb) ==
    IF fb.err
    THEN /\ RlkReturn(Errorf("failed to parse slirp4netns cidr", Empty), FALSE)
         /\ UNCHANGED childIP
    ELSE /\ childIP' = statusChildIP(flattenIPs(networkStatus, 1), 1, fb.ip)
         /\ rpc' = "start"
         /\ UNCHANGED <<rerr, parentSyncR, parentSyncW, logFd, portSyncR, released>>

\* Lines 428-448.
RlkChildIP ==
    /\ rpc = "childip"
    /\ childIPStep(fallbackChildIP(slirp4CIDR))
    /\ UNCHANGED <<child, childStatus, reaped, pipe, wrote, logData, logOff>>
    /\ UNCHANGED <<advisory, nsSyncR, logPath, forwarder>>
    /\ UNCHANGED <<slirp4CIDR, networkStatus, stdoutStr, errPipe>>
    /\ UNCHANGED <<cfgVars, syncVars, portVars, envVars, frame>>

\* Lines 450-488: the configuration is handed over on stdin, the child is
\* started and waitForSync called.
RlkStart ==
    /\ rpc = "start"
    /\ \E ok \in BOOLEAN :
         IF ok
         THEN /\ child' = "running"
              /\ CallWaitForSync
              /\ rpc' = "waitForSync"
              /\ UNCHANGED <<rerr, parentSyncR, parentSyncW, logFd, portSyncR, released>>
         ELSE /\ RlkReturn(Errorf("failed to start rootlessport process", Empty), TRUE)
              /\ UNCHANGED <<child, syncVars>>
    /\ UNCHANGED <<childStatus, reaped, pipe, wrote, logData, logOff>>
    /\ UNCHANGED <<advisory, nsSyncR, logPath, forwarder>>
    /\ UNCHANGED <<slirp4CIDR, networkStatus, childIP, stdoutStr, errPipe>>
    /\ UNCHANGED <<cfgVars, portVars, envVars, frame>>

S_stdout == <<"e","r","r","\n">>

\* The child prints a line for the user to its stdout (line 475).
ChildPrint ==
    /\ RlkChild
    /\ child = "running"
    /\ stdoutStr = Empty
    /\ stdoutStr' = S_stdout
    /\ UNCHANGED <<rpc, rerr, slirp4CIDR, networkStatus, childIP, errPipe, portSyncR>>
    /\ UNCHANGED <<cfgVars, procVars, syncVars, portVars, envVars, frame, resVars>>

\* The child prints a byte of its debug log to its stderr, a pipe to the
\* parent (line 476: the writer is not a file).
ChildErr ==
    /\ RlkChild
    /\ child = "running"
    /\ Len(logData) + Len(errPipe) < MaxLog
    /\ \E b \in LogBytes : errPipe' = Append(errPipe, b)
    /\ UNCHANGED <<rpc, rerr, slirp4CIDR, networkStatus, childIP, stdoutStr, portSyncR>>
    /\ UNCHANGED <<cfgVars, procVars, syncVars, portVars, envVars, frame, resVars>>

\* The goroutine os/exec started for the writer of line 476 copies a byte
\* from the pipe to the log file, at the offset the file stands at; it runs
\* whether or not the child still does.
LogCopy ==
    /\ InRlk
    /\ errPipe # <<>>
    /\ logFd = "open"
    /\ logData' = writeAt(logData, logOff, Head(errPipe))
    /\ logOff' = logOff + 1
    /\ errPipe' = Tail(errPipe)
    /\ UNCHANGED <<child, childStatus, reaped, parentSyncW, pipe, wrote>>
    /\ UNCHANGED <<rpc, rerr, slirp4CIDR, networkStatus, childIP, stdoutStr, portSyncR>>
    /\ UNCHANGED <<cfgVars, syncVars, portVars, envVars, frame, resVars>>

\* strings.TrimSuffix(s, "\n").
TrimSuffix(t) ==
    IF t # <<>> /\ t[Len(t)] = "\n" THEN SubSeq(t, 1, Len(t) - 1) ELSE t

\* Lines 488-498: waitForSync has returned; what the child printed to its
\* stdout replaces the error, as far as it has arrived in the buffer.
RlkSynced ==
    /\ rpc = "waitForSync"
    /\ wpc = "done"
    /\ IF wresult # Ready
       THEN \E seen \in {Empty, stdoutStr} :
              RlkReturn(IF seen # Empty THEN Errorf("rootlessport", TrimSuffix(seen))
                        ELSE Errorf(wresult.kind, wresult.log), TRUE)
       ELSE RlkReturn(NoErr, TRUE)
    /\ UNCHANGED <<child, childStatus, reaped, pipe, wrote, logData, logOff>>
    /\ UNCHANGED <<advisory, nsSyncR, logPath, forwarder>>
    /\ UNCHANGED <<slirp4CIDR, networkStatus, childIP, stdoutStr, errPipe>>
    /\ UNCHANGED <<cfgVars, syncVars, portVars, envVars, frame>>

\* ---------------------------------------------------------- specifications
CfgIdle ==
    /\ netOptions = nilOptions
    /\ features = noFeatures
    /\ cmdArgs = Nil
    /\ setupErr = NoErr

SyncIdle ==
    /\ wpc = "idle"
    /\ wresult = NoResult
    /\ expiries = 0
    /\ seeks = 0
    /\ logReads = 0
    /\ iterWaits = 0
    /\ logContent = Empty

RlkIdle ==
    /\ rpc = "idle"
    /\ rerr = NoErr
    /\ slirp4CIDR = Empty
    /\ networkStatus = <<>>
    /\ childIP = Empty
    /\ stdoutStr = Empty
    /\ errPipe = Empty
    /\ portSyncR = "none"

\* No child process yet.
NoChild ==
    /\ child = "none"
    /\ childStatus = -1
    /\ reaped = FALSE
    /\ pipe = 0
    /\ wrote = FALSE
    /\ logData = <<>>
    /\ logOff = 0

\* setupSlirp4netns after line 256: the binary is there and the sync pipe
\* is open at both ends.
PipeOpened ==
    /\ configured = FALSE
    /\ binary = TRUE
    /\ postConfigureNetNS = FALSE
    /\ advisory = FALSE
    /\ parentSyncR = TRUE
    /\ parentSyncW = TRUE
    /\ nsSyncR = "none"
    /\ logPath = FALSE
    /\ logFd = "none"
    /\ released = FALSE
    /\ frame = NoFrame
    /\ forwarder = "none"

\* setupSlirp4netns after line 335: the child runs, its log is unlinked.
ChildStarted ==
    /\ configured = FALSE
    /\ binary = TRUE
    /\ helpTexts = {HelpWords}
    /\ postConfigureNetNS = FALSE
    /\ advisory = FALSE
    /\ parentSyncR = TRUE
    /\ nsSyncR = "open"
    /\ logPath = FALSE
    /\ logFd = "open"
    /\ released = FALSE
    /\ frame = NoFrame

\* OptionParser alone, on every list of at most MaxOpts entries.
InitParse ==
    /\ engineOptions \in Lists(ValidEntries \cup InvalidEntries, MaxOpts)
    /\ extraOptions \in Lists(ValidEntries \cup InvalidEntries, MaxOpts - Len(engineOptions))
    /\ noPivotRoot \in BOOLEAN
    /\ spc = "parse"
    /\ CfgIdle
    /\ NoChild
    /\ PipeOpened
    /\ helpTexts = SUBSET HelpWords
    /\ SyncIdle
    /\ PortsIdle
    /\ RlkIdle

NextParse == SetupParse

SpecParse == InitParse /\ [][NextParse]_vars

\* Parse, probe and build, as setupSlirp4netns runs them.
InitConfig ==
    /\ engineOptions = <<>>
    /\ extraOptions \in Lists(ConfigEntries, MaxOpts)
    /\ noPivotRoot \in BOOLEAN
    /\ spc = "parse"
    /\ CfgIdle
    /\ NoChild
    /\ PipeOpened
    /\ helpTexts = SUBSET HelpWords
    /\ SyncIdle
    /\ PortsIdle
    /\ RlkIdle

NextConfig == SetupParse \/ SetupProbe \/ SetupBuild

SpecConfig == InitConfig /\ [][NextConfig]_vars


\* waitForSync on a child that was just started (line 342 or 488).
InitSync ==
    /\ engineOptions = <<>>
    /\ extraOptions = <<>>
    /\ noPivotRoot = FALSE
    /\ spc = "waitForSync"
    /\ CfgIdle
    /\ ProcStarted
    /\ ChildStarted
    /\ forwarder = "none"
    /\ wpc = "read"
    /\ wresult = NoResult
    /\ expiries = 0
    /\ seeks = 0
    /\ logReads = 0
    /\ iterWaits = 0
    /\ logContent = Empty
    /\ PortsIdle
    /\ RlkIdle

NextSync ==
    \/ ChildLog
    \/ ChildReady
    \/ ChildExit
    \/ ChildKilled
    \/ WfsRead
    \/ WfsWait4
    \/ WfsSeek
    \/ WfsReadAll

SpecSync == InitSync /\ [][NextSync]_vars

\* waitForSync with its loop scheduled fairly: the read of line 366 returns
\* by its deadline at the latest and the Wait4 of line 373 does not block,
\* so each step of the loop is taken once it is due. Nothing is assumed of
\* the child.
SpecSyncFair ==
    /\ SpecSync
    /\ WF_vars(WfsRead)
    /\ WF_vars(WfsWait4)
    /\ WF_vars(WfsSeek)
    /\ WF_vars(WfsReadAll)

\* setupRootlessPortMappingViaSlirp as line 348 calls it: waitForSync has
\* returned nil, the goroutine of line 504 is started and close(chWait) is
\* deferred.
InitPorts ==
    /\ engineOptions = <<>>
    /\ extraOptions = <<>>
    /\ noPivotRoot = FALSE
    /\ spc = "forward"
    /\ netOptions = nilOptions
    /\ features = noFeatures
    /\ cmdArgs = fixedArgs \o apiSocketArgs(TRUE, [isSlirpHostForward |-> TRUE])
                           \o netnsArgs(FALSE)
    /\ setupErr = NoErr
    /\ ChildStarted
    /\ forwarder = "slirp"
    /\ child = "running"
    /\ childStatus = -1
    /\ reaped = FALSE
    /\ parentSyncW = TRUE
    /\ pipe = 0
    /\ wrote = TRUE
    /\ logData = <<>>
    /\ logOff = 0
    /\ wpc = "done"
    /\ wresult = Ready
    /\ expiries = 0
    /\ seeks = 0
    /\ logReads = 0
    /\ iterWaits = 0
    /\ logContent = Empty
    /\ mappings \in {q \in Lists(PortMappings, MaxMappings) : q # <<>>}
    /\ sock = FALSE
    /\ registered = <<>>
    /\ fpc = "waitfile"
    /\ fileWait = "pending"
    /\ conns = <<>>
    /\ presult = NoCall
    /\ wstate = "poll"
    /\ wi = 0
    /\ chClosed = FALSE
    /\ RlkIdle

NextPorts ==
    \/ ChildExit
    \/ ChildKilled
    \/ HelperListen
    \/ HelperHandle
    \/ PfWaitForFile
    \/ PfDial
    \/ PfWrite
    \/ PfCloseWrite
    \/ PfRead
    \/ WatcherPoll
    \/ WatcherPanic
    \/ WatcherSleep
    \/ SetupForwarded

SpecPorts == InitPorts /\ [][NextPorts]_vars

\* The option lists of the whole-call runs: none, each port handler, a
\* subnet, an entry the parser refuses and one the builder refuses.
SetupOptionLists ==
    { <<>>,
      <<Opt(S_port_handler, S_slirp4netns)>>,
      <<Opt(S_port_handler, S_rootlesskit)>>,
      <<Opt(S_port_handler, S_slirp4netns), Opt(S_port_handler, S_rootlesskit)>>,
      <<Opt(S_cidr, <<"1","0",".","0",".","2",".","0","/","2","4">>)>>,
      <<Opt(S_mtu, <<"6","7">>)>>,
      <<Opt(S_outbound_addr6, <<":",":","1">>)>> }

\* A current helper, and one that knows none of the optional flags.
SetupHelpTexts == {HelpWords, {}}

\* The runs with port mappings: where the binary exists, and a forwarder can
\* be reached, it is found in PATH and the namespace is given by path.
ForwardingInputs == binary => (~configured /\ ~postConfigureNetNS)

\* setupSlirp4netns from its first line.
InitSetup ==
    /\ engineOptions = <<>>
    /\ extraOptions \in SetupOptionLists
    /\ noPivotRoot = FALSE
    /\ spc = "lookpath"
    /\ CfgIdle
    /\ NoChild
    /\ parentSyncW = FALSE
    /\ configured \in BOOLEAN
    /\ binary \in BOOLEAN
    /\ postConfigureNetNS \in BOOLEAN
    /\ advisory = FALSE
    /\ parentSyncR = FALSE
    /\ nsSyncR = IF postConfigureNetNS THEN "open" ELSE "none"
    /\ logPath = FALSE
    /\ logFd = "none"
    /\ released = FALSE
    /\ frame = NoFrame
    /\ forwarder = "none"
    /\ SyncIdle
    /\ mappings \in {<<>>, <<PortMapping("tcp", "", 8080, 80)>>}
    /\ sock = FALSE
    /\ registered = <<>>
    /\ fpc = "idle"
    /\ fileWait = "pending"
    /\ conns = <<>>
    /\ presult = NoCall
    /\ wstate = "idle"
    /\ wi = 0
    /\ chClosed = FALSE
    /\ RlkIdle
    /\ helpTexts = IF mappings = <<>> THEN SetupHelpTexts ELSE {HelpWords}
    /\ mappings # <<>> => ForwardingInputs

NextSetup ==
    \/ SetupLookPath
    \/ SetupPipe
    \/ SetupParse
    \/ SetupProbe
    \/ SetupBuild
    \/ SetupArgs
    \/ SetupLogCreate
    \/ SetupLogRemove
    \/ SetupStart
    \/ ChildLog
    \/ ChildReady
    \/ ChildExit
    \/ ChildKilled
    \/ WfsRead
    \/ WfsWait4
    \/ WfsSeek
    \/ WfsReadAll
    \/ SetupSynced
    \/ HelperListen
    \/ HelperHandle
    \/ PfWaitForFile
    \/ PfDial
    \/ PfWrite
    \/ PfCloseWrite
    \/ PfRead
    \/ WatcherPoll
    \/ WatcherPanic
    \/ WatcherSleep
    \/ RlkPipe
    \/ RlkLogCreate
    \/ RlkLogRemove
    \/ RlkPortPipe
    \/ RlkChildIP
    \/ RlkStart
    \/ ChildErr
    \/ LogCopy
    \/ ChildPrint
    \/ RlkSynced
    \/ SetupForwarded

SpecSetup == InitSetup /\ [][NextSetup]_vars

\* Addresses of a container's network status: two IPv4 addresses in the
\* 16-byte form and an IPv6 address.
StatusIPs ==
    { v4InV6Prefix \o <<10, 88, 0, 5>>,
      v4InV6Prefix \o <<192, 168, 1, 7>>,
      <<253, 0, 0, 0, 0, 0, 0, 0, 0, 0, 0, 0, 0, 0, 0, 5>> }

\* Subnets the option parser accepts; the last two are IPv4 addresses in
\* the IPv6 notation, which net.ParseCIDR returns in 16 bytes.
SubnetTexts ==
    { <<"1","0",".","0",".","2",".","0","/","2","4">>,
      <<"1","9","2",".","1","6","8",".","7",".","7","7","/","2","4">>,
      <<"1","0",".","1",".","2",".","3","/","8">>,
      <<"1","0",".","0",".","2",".","0","/","3","0">>,
      <<"1","0",".","0",".","2",".","2","0","0","/","2","9">>,
      S_mappedSubnet,
      <<":",":","f","f","f","f",":","1","0",".","0",".","2",".","0","/","0">> }

\* The locals of setupSlirp4netns at line 350.
CallerFrame ==
    [owner |-> "setup", parentSyncR |-> TRUE, parentSyncW |-> TRUE,
     logPath |-> FALSE, logFd |-> "open", started |-> TRUE, released |-> FALSE]

\* setupRootlessPortMappingViaRLK as line 350 calls it.
RlkCalled ==
    /\ engineOptions = <<>>
    /\ extraOptions = <<>>
    /\ noPivotRoot = FALSE
    /\ spc = "forward"
    /\ CfgIdle
    /\ NoChild
    /\ configured = FALSE
    /\ binary = TRUE
    /\ helpTexts = {HelpWords}
    /\ advisory = FALSE
    /\ parentSyncR = FALSE
    /\ parentSyncW = FALSE
    /\ nsSyncR = "open"
    /\ logPath = FALSE
    /\ logFd = "none"
    /\ released = FALSE
    /\ frame = CallerFrame
    /\ forwarder = "rlk"
    /\ wpc = "done"
    /\ wresult = Ready
    /\ expiries = 0
    /\ seeks = 0
    /\ logReads = 0
    /\ iterWaits = 0
    /\ logContent = Empty
    /\ PortsIdle
    /\ rerr = NoErr
    /\ childIP = Empty
    /\ stdoutStr = Empty
    /\ errPipe = Empty

\* The whole call, on a few inputs.
InitRLK ==
    /\ RlkCalled
    /\ postConfigureNetNS \in BOOLEAN
    /\ portSyncR = "none"
    /\ rpc = "pipe"
    /\ slirp4CIDR \in {Empty, <<"1","0",".","0",".","2",".","0","/","2","4">>}
    /\ networkStatus \in {<<>>, << <<v4InV6Prefix \o <<10, 88, 0, 5>> >> >>}

NextRLK ==
    \/ RlkPipe
    \/ RlkLogCreate
    \/ RlkLogRemove
    \/ RlkPortPipe
    \/ RlkChildIP
    \/ RlkStart
    \/ ChildErr
    \/ LogCopy
    \/ ChildReady
    \/ ChildPrint
    \/ ChildExit
    \/ ChildKilled
    \/ WfsRead
    \/ WfsWait4
    \/ WfsSeek
    \/ WfsReadAll
    \/ RlkSynced
    \/ SetupForwarded

SpecRLK == InitRLK /\ [][NextRLK]_vars

\* From the option list to the started helper: every list of at most MaxOpts
\* entries, with and without port mappings, in both namespace modes.
InitArgs ==
    /\ engineOptions = <<>>
    /\ extraOptions \in Lists(ConfigEntries, MaxOpts)
    /\ noPivotRoot \in BOOLEAN
    /\ spc = "parse"
    /\ CfgIdle
    /\ NoChild
    /\ configured = FALSE
    /\ binary = TRUE
    /\ helpTexts = SetupHelpTexts
    /\ postConfigureNetNS \in BOOLEAN
    /\ advisory = FALSE
    /\ parentSyncR = TRUE
    /\ parentSyncW = TRUE
    /\ nsSyncR = IF postConfigureNetNS THEN "open" ELSE "none"
    /\ logPath = FALSE
    /\ logFd = "none"
    /\ released = FALSE
    /\ frame = NoFrame
    /\ forwarder = "none"
    /\ SyncIdle
    /\ mappings \in {<<>>, <<PortMapping("tcp", "", 8080, 80)>>}
    /\ sock = FALSE
    /\ registered = <<>>
    /\ fpc = "idle"
    /\ fileWait = "pending"
    /\ conns = <<>>
    /\ presult = NoCall
    /\ wstate = "idle"
    /\ wi = 0
    /\ chClosed = FALSE
    /\ RlkIdle

NextArgs ==
    \/ SetupParse
    \/ SetupProbe
    \/ SetupBuild
    \/ SetupArgs
    \/ SetupLogCreate
    \/ SetupLogRemove
    \/ SetupStart

SpecArgs == InitArgs /\ [][NextArgs]_vars


\* The choice of childIP alone: every subnet without a network status, and
\* every status of at most MaxNets networks of at most MaxIPs addresses
\* with and without a subnet.
InitChildIP ==
    /\ RlkCalled
    /\ postConfigureNetNS = FALSE
    /\ portSyncR = "open"
    /\ rpc = "childip"
    /\ \/ /\ networkStatus = <<>>
          /\ slirp4CIDR \in SubnetTexts \cup {Empty}
       \/ /\ networkStatus \in Lists(Lists(StatusIPs, MaxIPs), MaxNets)
          /\ slirp4CIDR \in {Empty, <<"1","0",".","0",".","2",".","0","/","2","4">>}

NextChildIP == RlkChildIP

SpecChildIP == InitChildIP /\ [][NextChildIP]_vars

\* ================================================================== claims
\* C1 as stated: a child that terminates without ever having written to the
\* sync pipe makes waitForSync fail, never succeed: with the kill error when
\* a signal ended it, and when it exited with the whole log as the file
\* holds it when the call returns, read from its start.
C1_EarlyExitClassified ==
    /\ []((wpc = "done" /\ child \notin {"none", "running"} /\ ~wrote) =>
            /\ child = "exited" => wresult.kind = "HelperFailed"
            /\ child = "killed" => wresult = HelperKilled)
    /\ [][(wpc = "readall" /\ wpc' = "done") => wresult' = HelperFailed(logData')]_vars

\* C1, the failing run: the rootlessport child wrote to its stderr and
\* exited without writing to the sync pipe; the goroutine that copies its
\* stderr to the log wrote at the offset waitForSync had just rewound, the
\* read of the log started behind that byte, and the error carries an empty
\* log while the file holds a byte.
C1_Witness ==
    /\ InRlk
    /\ rpc = "waitForSync"
    /\ wpc = "done"
    /\ ~wrote
    /\ child = "exited"
    /\ seeks = 1
    /\ errPipe = <<>>
    /\ logData # <<>>
    /\ logOff = Len(logData)
    /\ wresult = HelperFailed(<<>>)

\* C2: a read of the sync pipe that finds data ends waitForSync with
\* success at once: no status poll in that turn of the loop, no seek and no
\* read of the log.
C2_DataEndsTheWait ==
    [][(wpc = "read" /\ pipe > 0 /\ wpc' # wpc) =>
          /\ wpc' = "done"
          /\ wresult' = Ready
          /\ seeks' = 0
          /\ logReads' = 0
          /\ iterWaits' = 0
          /\ logOff' = logOff
          /\ reaped' = reaped]_vars

C2_Witness ==
    /\ wpc = "done"
    /\ wresult = Ready
    /\ expiries > 0
    /\ child = "exited"
    /\ ~reaped
    /\ pipe = 0

\* C3: waitForSync returns only for data on the pipe, an exited child, a
\* killed child or a failed read; while the child runs without having
\* written, no number of deadline expiries makes it return.
C3_NoTimeoutCeiling ==
    /\ wpc = "done" =>
          \/ wresult = Ready /\ wrote
          \/ wresult.kind = "HelperFailed" /\ child = "exited"
          \/ wresult = HelperKilled /\ child = "killed"
          \/ wresult = ReadError
    /\ (child = "running" /\ ~wrote) => wpc # "done"

C3_Witness ==
    /\ expiries = MaxExpiries
    /\ wpc = "read"
    /\ child = "running"
    /\ ~wrote
    /\ wresult = NoResult


\* C4: no connection is dialled and no command sent unless WaitForFile
\* reported the socket file, and a wait that ended with an error (the
\* goroutine's report of the helper's end, or the timeout) makes the call
\* return that error with no connection opened and nothing sent.
C4_NoCommandBeforeSocketFile ==
    /\ conns # <<>> => fileWait = "found" /\ sock
    /\ fpc \in {"dial", "write", "closewrite", "read"} => fileWait = "found"
    /\ fileWait \in {"chan", "timeout"} =>
          /\ fpc = "returned"
          /\ presult.kind = "WaitForFile"
          /\ conns = <<>>
          /\ registered = <<>>

C4_Witness ==
    /\ fpc = "returned"
    /\ fileWait = "chan"
    /\ sock
    /\ presult = PortError("WaitForFile", 1)
    /\ conns = <<>>

\* The response was parsed and has no "error" key.
LacksErrorKey(r) == r.json \in {"object", "null"} /\ "error" \notin r.keys

HeldBefore(k) == {i \in 1..(k - 1) : Registers(conns[i].resp)}

\* C5: the mappings are handled in list order, one add_hostfwd request
\* each; a further mapping is started only after a response without an
\* "error" key; a response with the key ends the call with an error, with no
\* request for a later mapping and the earlier forwards still held by the
\* helper; responses without the key for all mappings make the call succeed
\* with exactly one request per mapping.
C5_InOrderAbortAtFirstRejection ==
    /\ Len(conns) <= Len(mappings)
    /\ \A i \in 1..Len(conns) :
          /\ conns[i].reqs \in {<<>>, <<slirp4netnsCmd(mappings[i])>>}
          /\ i < Len(conns) => conns[i].reqs # <<>> /\ LacksErrorKey(conns[i].resp)
    /\ (fpc = "returned" /\ presult.kind = "Rejected") =>
          /\ "error" \in conns[Len(conns)].resp.keys
          /\ Len(registered) = Cardinality(HeldBefore(Len(conns)))
          /\ \A i \in HeldBefore(Len(conns)) :
                \E j \in 1..Len(registered) : registered[j] = slirp4netnsCmd(mappings[i]).arguments
    /\ presult = PortsReady =>
          /\ Len(conns) = Len(mappings)
          /\ \A i \in 1..Len(conns) :
                conns[i].reqs = <<slirp4netnsCmd(mappings[i])>> /\ LacksErrorKey(conns[i].resp)
    /\ ( /\ fpc = "returned"
         /\ Len(conns) = Len(mappings)
         /\ \A i \in 1..Len(conns) : LacksErrorKey(conns[i].resp) ) => presult = PortsReady

C5_Witness ==
    /\ fpc = "returned"
    /\ presult.kind = "Rejected"
    /\ Len(mappings) = 3
    /\ Len(conns) = 2
    /\ conns[2].resp = Response("object", {"error"})
    /\ registered = <<slirp4netnsCmd(mappings[1]).arguments>>

\* C6: every mapping's request goes over the connection dialled for it and
\* a connection carries at most one request; the connections stay open while
\* the call runs and each one dialled has been closed exactly once when the
\* call has returned, however it returned.
C6_OwnConnectionClosedOnce ==
    /\ \A i \in 1..Len(conns) :
          /\ Len(conns[i].reqs) <= 1
          /\ conns[i].reqs # <<>> => conns[i].reqs[1] = slirp4netnsCmd(mappings[i])
          /\ i < Len(conns) => Len(conns[i].reqs) = 1
    /\ fpc = "returned" => \A i \in 1..Len(conns) : conns[i].closes = 1
    /\ fpc # "returned" => \A i \in 1..Len(conns) : conns[i].closes = 0

C6_Witness ==
    /\ fpc = "returned"
    /\ presult.kind = "Unmarshal"
    /\ Len(conns) = 2
    /\ mappings[1] # mappings[2]
    /\ \A i \in 1..2 : conns[i].closes = 1 /\ Len(conns[i].reqs) = 1

\* C12 as stated: whenever the binary is absent the call returns nil.
C12_AbsentBinaryAlwaysReturnsNil ==
    (~binary /\ spc = "returned") => setupErr = NoErr /\ advisory

\* C12: without a configured path, a binary missing from PATH makes
\* setupSlirp4netns log and return nil with no pipe, no child, no wait for
\* readiness and no forwarder; with a configured path a missing binary is
\* not looked for, and the call fails with an error (of the pipe, the
\* options or the probe), again with no child, wait or forwarder.
C12_MissingBinaryNilOnlyViaPathLookup ==
    /\ (~binary /\ ~configured /\ spc # "lookpath") =>
          /\ spc = "returned"
          /\ setupErr = NoErr
          /\ advisory
          /\ ~parentSyncR /\ ~parentSyncW
    /\ (~binary /\ configured /\ spc = "returned") =>
          /\ setupErr # NoErr
          /\ ~advisory
    /\ ~binary =>
          /\ child = "none"
          /\ wpc = "idle"
          /\ forwarder = "none"
          /\ logFd = "none"
    /\ advisory => ~binary /\ ~configured

C12_Witness ==
    /\ ~binary
    /\ ~configured
    /\ spc = "returned"
    /\ setupErr = NoErr
    /\ advisory
    /\ child = "none"
    /\ mappings # <<>>

\* C13 as stated: while waitForSync runs the caller has closed its copies of
\* the write end and of the descriptor handed to the child.
C13_ParentClosesWriteEndBeforeWaiting ==
    (spc = "waitForSync" /\ wpc \in {"read", "wait4"}) =>
        ~parentSyncW /\ nsSyncR # "open"

\* The pipe ends and the log of setupSlirp4netns, and whether it has started
\* its helper, also while setupRootlessPortMappingViaRLK runs.
SetupSyncR == IF InRlk THEN frame.parentSyncR ELSE parentSyncR

SetupSyncW == IF InRlk THEN frame.parentSyncW ELSE parentSyncW

HelperStarted == IF RlkChild THEN TRUE ELSE child # "none"

\* The log of setupRootlessPortMappingViaRLK, also once it has returned to
\* setupSlirp4netns.
RlkLogFd == IF frame.owner = "rlk" THEN frame.logFd ELSE logFd

RlkLogPath == IF frame.owner = "rlk" THEN frame.logPath ELSE logPath

\* C13: the caller keeps its copy of the write end, and of the descriptor
\* handed to the child, open from the child's start until setupSlirp4netns
\* returns; the deferred calls close the pipe's ends then (and the handed
\* descriptor only under PostConfigureNetNS). So no read of waitForSync ever
\* sees end of file: a child that is gone is found by Wait4 after a
\* deadline expiry.
C13_WriteEndHeldUntilReturn ==
    /\ (HelperStarted /\ spc # "returned") =>
          SetupSyncW /\ SetupSyncR /\ nsSyncR = "open"
    /\ wresult # ReadError
    /\ (wpc = "done" /\ child \notin {"none", "running"} /\ ~wrote) => expiries > 0
    /\ spc = "returned" => ~parentSyncW /\ ~parentSyncR
    /\ (spc = "returned" /\ HelperStarted) =>
          nsSyncR = IF postConfigureNetNS THEN "closed" ELSE "open"

C13_Witness ==
    /\ spc = "waitForSync"
    /\ wpc = "wait4"
    /\ child = "exited"
    /\ ~wrote
    /\ parentSyncW
    /\ nsSyncR = "open"
    /\ expiries = 1

\* C14: in both supervised starts a child exists only after the log file was
\* created and its path removed, so no child runs while the path exists; and
\* once the call has returned, whichever way, the log descriptor is not open.
C14_LogUnlinkedBeforeStartClosedAtReturn ==
    /\ (~RlkChild /\ child # "none") => logFd # "none" /\ ~logPath
    /\ InRlk => frame.logFd # "none" /\ ~frame.logPath
    /\ (RlkChild /\ child # "none") => RlkLogFd # "none" /\ ~RlkLogPath
    /\ spc = "returned" => logFd # "open"
    /\ rpc = "returned" => RlkLogFd # "open"

\* C14 witness: the rootlessport child was started with the path gone, failed
\* the wait, and both calls returned with their descriptors closed.
C14_Witness ==
    /\ spc = "returned"
    /\ rpc = "returned"
    /\ setupErr = rerr
    /\ rerr # NoErr
    /\ child # "none"
    /\ ~RlkLogPath
    /\ RlkLogFd = "closed"
    /\ logFd = "closed"

\* An address of the status is IPv4 when it is the 16-byte form of one.
IsIPv4Entry(ip) ==
    /\ \A k \in 1..10 : ip[k] = 0
    /\ ip[11] = 255
    /\ ip[12] = 255

\* The dotted text of the IPv4 address in a 16-byte entry.
DottedQuad(ip) ==
    FormatNat(ip[13]) \o <<".">> \o FormatNat(ip[14]) \o <<".">>
        \o FormatNat(ip[15]) \o <<".">> \o FormatNat(ip[16])

\* The addresses of the status in scan order, and the places of the IPv4 ones.
ScanOrder == flattenIPs(networkStatus, 1)

IPv4Places == {j \in 1..Len(ScanOrder) : IsIPv4Entry(ScanOrder[j])}

\* C15: once childIP is chosen, it is the first IPv4 address of the network
\* status in scan order if the status has one; otherwise the address derived
\* from the configured subnet if one is configured; otherwise slirp4netnsIP.
C15_ChildIPPrecedence ==
    rpc = "start" =>
        IF IPv4Places # {}
        THEN \E j \in IPv4Places :
                /\ \A k \in IPv4Places : j <= k
                /\ childIP = DottedQuad(ScanOrder[j])
        ELSE IF slirp4CIDR # Empty
        THEN childIP = cidrChildIP(ParseCIDR(slirp4CIDR)).ip
        ELSE childIP = slirp4netnsIP

\* C15 witness: a subnet is configured, the status holds an IPv6 address
\* first and two different IPv4 addresses after it, and the first of them
\* was chosen.
C15_Witness ==
    /\ rpc = "start"
    /\ slirp4CIDR # Empty
    /\ Len(networkStatus) = 2
    /\ Len(ScanOrder) = 3
    /\ ~IsIPv4Entry(ScanOrder[1])
    /\ \E j, k \in IPv4Places : j < k /\ ScanOrder[j] # ScanOrder[k]
    /\ childIP # cidrChildIP(ParseCIDR(slirp4CIDR)).ip

\* The prefix length written in a subnet text.
SubnetOnes(cidr) == dtoi(Drop(cidr, Index(cidr, "/") + 1)).n

\* The subnet's network address with 100 added to its last octet as a number.
NetworkPlus100(net) == [net EXCEPT ![Len(net)] = @ + 100]

\* The address a text names, in the length of the subnet's own.
AddressIn(text, len) == IF len = 4 THEN To4(ParseIP(text)) ELSE ParseIP(text)

\* C16 as stated: with a subnet configured and no network status, the chosen
\* childIP is the network address plus 100 with no wrap of the last octet,
\* and it lies inside the subnet.
C16_HundredthAddressInsideSubnet ==
    rpc = "start" /\ networkStatus = <<>> /\ slirp4CIDR # Empty =>
        /\ childIP = IPString(NetworkPlus100(ParseCIDR(slirp4CIDR).net))
        /\ cidrNet(AddressIn(childIP, Len(ParseCIDR(slirp4CIDR).net)),
                   Len(ParseCIDR(slirp4CIDR).net), SubnetOnes(slirp4CIDR))
               = ParseCIDR(slirp4CIDR).net

\* C16, the failing run: slirp4CIDR is 10.0.2.200/29, whose network address
\* ends in 200; the byte addition wraps and childIP is 10.0.2.44.
C16_Witness ==
    /\ rpc = "start"
    /\ networkStatus = <<>>
    /\ slirp4CIDR = <<"1","0",".","0",".","2",".","2","0","0","/","2","9">>
    /\ childIP = <<"1","0",".","0",".","2",".","4","4">>

\* What the parser answers to each entry it refuses.
Refusals ==
    { <<S_mtu, Errorf("unknown option for slirp4netns", S_mtu)>>,
      <<Opt(<<"d","n","s">>, S_true),
        Errorf("unknown option for slirp4netns", Opt(<<"d","n","s">>, S_true))>>,
      <<Opt(S_cidr, <<"f","d","0","0",":",":","/","6","4">>),
        Errorf("invalid cidr", <<"f","d","0","0",":",":","/","6","4">>)>>,
      <<Opt(S_port_handler, <<"n","o","n","e">>),
        Errorf("unknown port_handler for slirp4netns", <<"n","o","n","e">>)>>,
      <<Opt(S_enable_ipv6, <<"y","e","s">>),
        Errorf("invalid value of enable_ipv6 for slirp4netns", <<"y","e","s">>)>>,
      <<Opt(S_allow_host_loopback, <<"1">>),
        Errorf("invalid value of allow_host_loopback for slirp4netns", <<"1">>)>>,
      <<Opt(S_outbound_addr6, <<"1","0",".","0",".","0",".","1">>),
        Errorf("invalid outbound_addr6", <<"1","0",".","0",".","0",".","1">>)>>,
      <<Opt(S_mtu, <<"6","7">>), Errorf("invalid mtu", <<"6","7">>)>>,
      <<Opt(S_mtu, <<"0">>), Errorf("invalid mtu", <<"0">>)>>,
      <<Opt(S_mtu, <<"1","k">>), Errorf("invalid mtu", <<"1","k">>)>>,
      <<Opt(S_mtu, S_bigNumber), Errorf("invalid mtu", S_bigNumber)>> }

Refused(l) == {i \in 1..Len(l) : l[i] \in InvalidEntries}

FirstRefused(l) == CHOOSE i \in Refused(l) : \A j \in Refused(l) : i <= j

\* C11: a list with an entry that is malformed, of unknown key or of
\* invalid value makes the parser return no options and the error of the
\* first such entry, whatever stands before or after it; a list without one
\* (MTU 68 and 1500 among its entries) is parsed.
C11_FirstInvalidEntryFailsTheParse ==
    spc # "parse" =>
        LET l == engineOptions \o extraOptions
        IN  /\ Refused(l) # {} =>
                  /\ spc = "returned"
                  /\ netOptions.nil
                  /\ <<l[FirstRefused(l)], setupErr>> \in Refusals
            /\ Refused(l) = {} =>
                  /\ spc = "probe"
                  /\ ~netOptions.nil
                  /\ setupErr = NoErr

C11_Witness ==
    /\ spc = "returned"
    /\ netOptions.nil
    /\ engineOptions = <<Opt(S_mtu, <<"1","5","0","0">>)>>
    /\ extraOptions = <<Opt(S_mtu, <<"6","7">>)>>
    /\ setupErr = Errorf("invalid mtu", <<"6","7">>)

\* slirpOptions of line 112: the engine's entries, then the container's.
slirpOptions == engineOptions \o extraOptions

\* The places of list l whose entry is key=<something>.
Named(l, key) ==
    { i \in 1..Len(l) : Len(SplitN2(l[i])) = 2 /\ SplitN2(l[i])[1] = key }

Given(l, key) == Named(l, key) # {}

\* The value of the last entry of l for key.
LastValue(l, key) ==
    SplitN2(l[CHOOSE i \in Named(l, key) : \A j \in Named(l, key) : j <= i])[2]

Flags(args) == { args[i].flag : i \in 1..Len(args) }

ProbeFailed == spc = "returned" /\ setupErr.msg = "error checking slirp4netns binary"

\* createBasicSlirp4netnsCmdArgs has returned.
AfterBuild == spc = "built" \/ (spc = "returned" /\ ~netOptions.nil /\ ~ProbeFailed)

\* The option an UnsupportedFeature error names.
Unsupported(option) == Errorf(option, Empty)

\* ---- C7
\* C7 as stated: whenever a requested option (loopback-disable, MTU,
\* sandbox-enable without no-pivot-root, CIDR, IPv6-enable, outbound-addr,
\* outbound-addr6) lacks its capability, CommandBuilder fails with an
\* UnsupportedFeature error and returns no argument vector.
C7_EveryUnsupportedOptionFails ==
    AfterBuild =>
      LET o == netOptions.v
          f == features
      IN  ( \/ o.disableHostLoopback /\ ~f.HasDisableHostLoopback
            \/ intLess(IntOf(-1), o.mtu) /\ ~f.HasMTU
            \/ ~o.noPivotRoot /\ ~f.HasEnableSandbox
            \/ o.cidr # Empty /\ ~f.HasCIDR
            \/ o.enableIPv6 /\ ~f.HasIPv6
            \/ o.outboundAddr # Empty /\ ~f.HasOutboundAddr
            \/ o.outboundAddr6 # Empty /\ ~(f.HasOutboundAddr /\ f.HasIPv6) )
          => /\ spc = "returned"
             /\ setupErr \in { Unsupported("cidr not supported"),
                               Unsupported("enable_ipv6 not supported"),
                               Unsupported("outbound_addr not supported"),
                               Unsupported("outbound_addr6 not supported") }

\* C7, amended: for CIDR, IPv6-enable, outbound-addr and outbound-addr6 a
\* requested option without its capability makes CommandBuilder return no
\* vector and the UnsupportedFeature error of the first such option in the
\* order cidr, enable_ipv6, outbound_addr, outbound_addr6, and a returned
\* vector holds the flag of every requested one of the four; loopback-disable,
\* MTU and sandbox-enable are best-effort, left out of the vector without an
\* error when the capability is missing.
C7_CheckedOptionsFailBestEffortOptionsDrop ==
    AfterBuild =>
      LET o == netOptions.v
          f == features
          badCidr == o.cidr # Empty /\ ~f.HasCIDR
          badIPv6 == o.enableIPv6 /\ ~f.HasIPv6
          badAddr == o.outboundAddr # Empty /\ ~f.HasOutboundAddr
          badAddr6 == o.outboundAddr6 # Empty /\ ~(f.HasOutboundAddr /\ f.HasIPv6)
          needsIPv6 == o.outboundAddr6 # Empty /\ ~o.enableIPv6
      IN  /\ badCidr => spc = "returned" /\ setupErr = Unsupported("cidr not supported")
          /\ ~badCidr /\ badIPv6
               => spc = "returned" /\ setupErr = Unsupported("enable_ipv6 not supported")
          /\ ~badCidr /\ ~badIPv6 /\ badAddr
               => spc = "returned" /\ setupErr = Unsupported("outbound_addr not supported")
          /\ ~badCidr /\ ~badIPv6 /\ ~badAddr /\ badAddr6
               => spc = "returned" /\ setupErr = Unsupported("outbound_addr6 not supported")
          /\ spc = "returned" => cmdArgs = Nil
          /\ ~(badCidr \/ badIPv6 \/ badAddr \/ badAddr6 \/ needsIPv6) => spc = "built"
          /\ spc = "built" =>
               /\ o.cidr # Empty => Arg("--cidr=", o.cidr) \in Range(cmdArgs)
               /\ o.enableIPv6 => Arg("--enable-ipv6", Empty) \in Range(cmdArgs)
               /\ o.outboundAddr # Empty
                    => Arg("--outbound-addr=", o.outboundAddr) \in Range(cmdArgs)
               /\ o.outboundAddr6 # Empty
                    => Arg("--outbound-addr6=", o.outboundAddr6) \in Range(cmdArgs)
               /\ "--disable-host-loopback" \in Flags(cmdArgs)
                    <=> (o.disableHostLoopback /\ f.HasDisableHostLoopback)
               /\ "--mtu=" \in Flags(cmdArgs) <=> f.HasMTU
               /\ "--enable-sandbox" \in Flags(cmdArgs)
                    <=> (~o.noPivotRoot /\ f.HasEnableSandbox)

\* A build that failed on outbound_addr while the cidr it was also asked for
\* is supported.
C7_Witness ==
    /\ AfterBuild
    /\ setupErr = Unsupported("outbound_addr not supported")
    /\ netOptions.v.cidr # Empty
    /\ features.HasCIDR
    /\ ~features.HasDisableHostLoopback

\* ---- C8
\* The capability a flag of the vector stands for.
Capable(flag, f) ==
    CASE flag = "--disable-host-loopback" -> f.HasDisableHostLoopback
      [] flag = "--mtu=" -> f.HasMTU
      [] flag = "--enable-sandbox" -> f.HasEnableSandbox
      [] flag = "--enable-seccomp" -> f.HasEnableSeccomp
      [] flag = "--cidr=" -> f.HasCIDR
      [] flag = "--enable-ipv6" -> f.HasIPv6
      [] flag = "--outbound-addr=" -> f.HasOutboundAddr
      [] flag = "--outbound-addr6=" -> f.HasOutboundAddr /\ f.HasIPv6
      [] OTHER -> FALSE

\* C8: a vector CommandBuilder returns holds no flag whose capability is
\* false in the FeatureSet; --outbound-addr6 needs both the outbound-address
\* and the IPv6 capability.
C8_NoFlagWithoutCapability ==
    spc = "built" => \A flag \in Flags(cmdArgs) : Capable(flag, features)

\* A vector with --outbound-addr6 built for a helper that lacks --mtu.
C8_Witness ==
    /\ spc = "built"
    /\ "--outbound-addr6=" \in Flags(cmdArgs)
    /\ ~features.HasMTU
    /\ ~features.HasCIDR

\* ---- C9
IsIPv6Literal(value) == ParseIP(value) # Nil /\ To4(ParseIP(value)) = Nil

\* Entry i of l is outbound_addr6=<IPv6 literal> with no enable_ipv6=true
\* entry before it.
Outbound6BeforeIPv6(l, i) ==
    /\ i \in Named(l, S_outbound_addr6)
    /\ IsIPv6Literal(SplitN2(l[i])[2])
    /\ \A j \in 1..(i - 1) : l[j] # Opt(S_enable_ipv6, S_true)

\* C9 as stated: parse fails on a list in which an outbound_addr6 entry is
\* not preceded by enable_ipv6=true, and accepts enable_ipv6=true followed
\* by outbound_addr6.
C9_ParseRejectsOutbound6BeforeIPv6 ==
    spc # "parse" =>
      /\ (\E i \in 1..Len(slirpOptions) : Outbound6BeforeIPv6(slirpOptions, i))
           => netOptions.nil /\ spc = "returned"
      /\ slirpOptions = <<Opt(S_enable_ipv6, S_true), Opt(S_outbound_addr6, <<":",":","1">>)>>
           => ~netOptions.nil

\* C9, amended: OptionParser accepts outbound_addr6 wherever it stands in the
\* list; the enable_ipv6 requirement is enforced by CommandBuilder on the
\* values left after the whole list was parsed: no vector is built when an
\* outbound_addr6 entry is given and the last enable_ipv6 entry is not true
\* (the error being "enable_ipv6=true is required for outbound_addr6" when
\* the helper supports what was asked for), and with a last enable_ipv6=true
\* the two entries are accepted in either order.
C9_BuilderEnforcesIPv6OnFinalValues ==
    LET l == slirpOptions
        wants6 == Given(l, S_outbound_addr6)
        ipv6On == Given(l, S_enable_ipv6) /\ LastValue(l, S_enable_ipv6) = S_true
        f == features
        supported == /\ f.HasOutboundAddr /\ f.HasIPv6
                     /\ Given(l, S_cidr) => f.HasCIDR
    IN  /\ spc # "parse" => ~netOptions.nil
        /\ spc = "built" /\ wants6 => ipv6On /\ "--outbound-addr6=" \in Flags(cmdArgs)
        /\ AfterBuild /\ wants6 /\ ~ipv6On
             => /\ spc = "returned"
                /\ cmdArgs = Nil
                /\ supported
                     => setupErr = Errorf("enable_ipv6=true is required for outbound_addr6", Empty)
        /\ AfterBuild /\ wants6 /\ ipv6On /\ supported => spc = "built"

\* outbound_addr6 given before enable_ipv6=true, parsed and built.
C9_Witness ==
    /\ spc = "built"
    /\ slirpOptions = <<Opt(S_outbound_addr6, <<":",":","1">>), Opt(S_enable_ipv6, S_true)>>

\* ---- C10
\* C10: after a successful parse each field holds what the last entry for
\* its key says, or the default when no entry names the key.
C10_LastWriteWins ==
    spc = "probe" =>
      LET o == netOptions.v
          l == slirpOptions
      IN  /\ ~netOptions.nil
          /\ o.cidr = IF Given(l, S_cidr) THEN LastValue(l, S_cidr) ELSE Empty
          /\ o.isSlirpHostForward
               = IF Given(l, S_port_handler)
                 THEN LastValue(l, S_port_handler) = S_slirp4netns ELSE FALSE
          /\ o.disableHostLoopback
               = IF Given(l, S_allow_host_loopback)
                 THEN LastValue(l, S_allow_host_loopback) = S_false ELSE TRUE
          /\ o.enableIPv6
               = IF Given(l, S_enable_ipv6) THEN LastValue(l, S_enable_ipv6) = S_true ELSE FALSE
          /\ o.outboundAddr
               = IF Given(l, S_outbound_addr) THEN LastValue(l, S_outbound_addr) ELSE Empty
          /\ o.outboundAddr6
               = IF Given(l, S_outbound_addr6) THEN LastValue(l, S_outbound_addr6) ELSE Empty
          /\ o.mtu = IF Given(l, S_mtu) THEN Atoi(LastValue(l, S_mtu)).n ELSE IntOf(slirp4netnsMTU)
          /\ o.noPivotRoot = noPivotRoot

\* An engine-wide mtu overridden by the container's.
C10_Witness ==
    /\ spc = "probe"
    /\ engineOptions = <<Opt(S_mtu, <<"6","8">>)>>
    /\ extraOptions = <<Opt(S_mtu, <<"1","5","0","0">>)>>
    /\ netOptions.v.mtu = IntOf(1500)

\* The flags of the command builder in their canonical order.
FlagOrder ==
    << "--disable-host-loopback", "--mtu=", "--enable-sandbox", "--enable-seccomp",
       "--cidr=", "--enable-ipv6", "--outbound-addr=", "--outbound-addr6=" >>

\* The first k arguments are builder flags in strictly rising canonical order.
Canonical(args, k) ==
    /\ \A i \in 1..k : \E r \in 1..Len(FlagOrder) : FlagOrder[r] = args[i].flag
    /\ \A i, j \in 1..k : \A q, r \in 1..Len(FlagOrder) :
          i < j /\ FlagOrder[q] = args[i].flag /\ FlagOrder[r] = args[j].flag => q < r

\* What follows the builder's flags: configure, exit-fd 3, ready-fd 4, the
\* api-socket pair or nothing, then the namespace by path or by PID and the
\* device name.
CallerTails ==
    { << [flag |-> "-c", val |-> <<>>], [flag |-> "-e", val |-> <<>>],
         [flag |-> "", val |-> <<"3">>], [flag |-> "-r", val |-> <<>>],
         [flag |-> "", val |-> <<"4">>] >> \o api \o ns :
        api \in { <<>>,
                  << [flag |-> "--api-socket", val |-> <<>>],
                     [flag |-> "", val |-> S_apiSocket] >> },
        ns \in { << [flag |-> "--netns-type=path", val |-> <<>>],
                    [flag |-> "", val |-> S_netnsPath],
                    [flag |-> "", val |-> <<"t","a","p","0">>] >>,
                 << [flag |-> "", val |-> <<"4","2","4","2">>],
                    [flag |-> "", val |-> <<"t","a","p","0">>] >> } }

\* C17: whenever the helper is started, its argument vector is a run of
\* builder flags in canonical order followed by the caller's fixed tail,
\* whatever the order of the entries in the option list.
C17_CanonicalArgumentOrder ==
    child # "none" =>
        \E k \in 0..Len(cmdArgs) :
            /\ Canonical(cmdArgs, k)
            /\ SubSeq(cmdArgs, k + 1, Len(cmdArgs)) \in CallerTails

\* C17 witness: the list names outbound_addr before cidr, the helper is
\* started for a container with port mappings, and both flags are in the
\* vector together with the loopback and MTU flags.
C17_Witness ==
    /\ child = "running"
    /\ Len(extraOptions) = 2
    /\ Named(extraOptions, S_outbound_addr) = {1}
    /\ Named(extraOptions, S_cidr) = {2}
    /\ mappings # <<>>
    /\ {"--disable-host-loopback", "--mtu=", "--cidr=", "--outbound-addr="}
           \subseteq Flags(cmdArgs)

\* C18 as stated: the liveness goroutine is never at its send on chWait, nor
\* failed in it, once the foreground has closed chWait.
C18_NoSendOnClosedChannel ==
    chClosed => wstate \notin {"send", "panicked"}

\* C18, the failing run: every mapping was registered and the call returned
\* nil, closing chWait; the helper ended afterwards, the goroutine's Wait4
\* collected it and the send on the closed channel panicked.
C18_Witness ==
    /\ fpc = "returned"
    /\ presult = PortsReady
    /\ Len(registered) = Len(mappings)
    /\ child # "running"
    /\ wstate = "panicked"

\* The error setup returns when the forwarder it invoked failed.
ForwarderError ==
    \/ forwarder = "slirp" /\ setupErr = forwarderErr(presult)
    \/ forwarder = "rlk" /\ setupErr = rerr

\* The error setup returns when waitForSync failed.
SyncError ==
    /\ forwarder = "none"
    /\ wresult \notin {NoResult, Ready}
    /\ setupErr = Errorf(wresult.kind, wresult.log)

\* C19: the wait for readiness begins only with a started child; a forwarder
\* is invoked only after waitForSync returned success; a failed waitForSync
\* is what setup returns; every error other than the forwarder's own leaves
\* the forwarder uninvoked, and every error that is neither the forwarder's
\* nor waitForSync's leaves no child process.
C19_ForwarderOnlyAfterReady ==
    /\ [](wpc \notin {"idle", "done"} => child # "none")
    /\ [][forwarder' # forwarder =>
             /\ spc = "waitForSync"
             /\ child # "none"
             /\ wpc = "done"
             /\ wresult = Ready]_vars
    /\ [](spc = "returned" /\ forwarder = "none" /\ wresult \notin {NoResult, Ready}
             => SyncError)
    /\ [](spc = "returned" /\ setupErr # NoErr /\ ~ForwarderError
             => forwarder = "none")
    /\ [](spc = "returned" /\ setupErr # NoErr /\ ~ForwarderError /\ ~SyncError
             => child = "none")

\* C19 witness: a container with port mappings whose helper was started and
\* failed the wait: setup returned that error and invoked no forwarder.
C19_Witness ==
    /\ spc = "returned"
    /\ mappings # <<>>
    /\ child # "none"
    /\ SyncError
    /\ forwarder = "none"

\* The port handler in effect: the last port_handler entry of the option
\* list names slirp4netns.
SlirpHandlerInEffect ==
    /\ Given(engineOptions \o extraOptions, S_port_handler)
    /\ LastValue(engineOptions \o extraOptions, S_port_handler) = S_slirp4netns

\* The forwarder the claim expects for the container.
ExpectedForwarder ==
    IF mappings = <<>> THEN "none"
    ELSE IF SlirpHandlerInEffect THEN "slirp" ELSE "rlk"

\* C20: once waitForSync has returned success and setup has gone on, the
\* forwarder invoked is none for a container without port mappings, the
\* slirp4netns one when the handler in effect is slirp4netns and the
\* rootlessport one otherwise; and a started helper has --api-socket in its
\* arguments exactly when the slirp4netns forwarder is the one to invoke.
C20_ForwarderMatchesCommandLine ==
    /\ wresult = Ready /\ spc \in {"forward", "returned"}
          => forwarder = ExpectedForwarder
    /\ forwarder \in {"none", ExpectedForwarder}
    /\ child # "none"
          => ("--api-socket" \in Flags(cmdArgs) <=> ExpectedForwarder = "slirp")

\* C20 witness: the list names slirp4netns and then rootlesskit, the
\* container has mappings, the helper was started without --api-socket and
\* the rootlessport forwarder was invoked.
C20_Witness ==
    /\ Named(extraOptions, S_port_handler) = {1, 2}
    /\ mappings # <<>>
    /\ child # "none"
    /\ "--api-socket" \notin Flags(cmdArgs)
    /\ forwarder = "rlk"

\* The child has written to the ready fd or has ended.
ChildActed == wrote \/ child # "running"

\* C21 as stated: waitForSync returns once the child acted, with success
\* whenever the child wrote to the pipe.
C21_WroteMeansSuccess ==
    wpc = "done" /\ wrote => wresult = Ready

\* C21: under fair scheduling of the loop, once the child has written or
\* ended, waitForSync returns. It returns success only if the child wrote
\* and an error only if the child ended; a child that wrote and then ended
\* can get either.
C21_WaitReturnsOnceChildActed ==
    /\ [](wpc = "done" => (wresult = Ready => wrote))
    /\ [](wpc = "done" => (wresult # Ready => child # "running"))
    /\ (ChildActed ~> wpc = "done")

\* C21 witness: the child wrote to the pipe and exited after a deadline had
\* expired, and waitForSync returned the error of an exited child.
C21_Witness ==
    /\ wpc = "done"
    /\ wrote
    /\ pipe > 0
    /\ child = "exited"
    /\ wresult.kind = "HelperFailed"

====
